---------------------------- MODULE Spec2Model ----------------------------
(***************************************************************************)
(* Incremental indexing of one project: the file-level hash cache          *)
(* (packages/core/src/cache/simple-hash-cache.ts), the project metadata    *)
(* (packages/core/src/cache/project-metadata.ts), and the indexing         *)
(* controller of spec.md section 4.7 that drives them against a vector     *)
(* store.  The two cache managers are translated from their source; the    *)
(* controller and the vector store are not among the source files and are  *)
(* translated from spec.md.                                                *)
(*                                                                         *)
(* Timestamps (lastIndexed, lastModified, createdAt: Date.now()) are left  *)
(* out of the documents: no operation reads them back.                     *)
(*                                                                         *)
(* Further components, each with a specification of its own over the same  *)
(* variables: the lock file, the OpenAI embedding client, the hybrid       *)
(* search, the collection naming, the manual-query tools, the log          *)
(* directory and IndexLogger, one hash cache manager, the sync-index       *)
(* snapshot and stop-indexing.  A component's actions leave the variables  *)
(* of every other component unchanged.                                     *)
(***************************************************************************)
EXTENDS Integers, Sequences, FiniteSets, TLC

(***************************************************************************)
(* Bounds and domains                                                      *)
(***************************************************************************)
\* File contents are 1..MaxContent; 0 is "no such file in the working tree".
MaxContent == 2

Files == {"src/a.ts", "src/b.ts"}

Contents == 1..MaxContent

\* The indexed project's path, /proj: a path is absolute or relative to the
\* working directory and has a sequence of segments.
ProjectPath == [absolute |-> TRUE, segments |-> <<"proj">>]

\* The embedding models of the configuration and the dimension each produces.
ModelDimension ==
    [m \in {"text-embedding-3-small", "text-embedding-v4"} |->
        IF m = "text-embedding-3-small" THEN 1536 ELSE 1024]

\* The runs of the model index in one search mode; a cache left by the other
\* mode is among the initial states.
HybridModes == {FALSE}

Configs ==
    {[isHybrid |-> h, embeddingModel |-> m, embeddingDimension |-> ModelDimension[m]] :
        h \in HybridModes, m \in DOMAIN ModelDimension}

NoConfig == [isHybrid |-> FALSE, embeddingModel |-> "", embeddingDimension |-> 0]

(***************************************************************************)
(* Chunker and content hash                                                *)
(***************************************************************************)
\* The number of chunks the chunker yields for a content: content c has c chunks.
Chunker(c) == c

\* SHA-256 of the content: injective on the modelled contents.
calculateHash(c) == <<"sha256", c>>

\* The content a recorded hash identifies.
ContentOfHash(h) == h[2]

(***************************************************************************)
(* Files on disk: a file is absent, truncated (a write was started and not *)
(* completed: not parseable as JSON) or holds one complete document.       *)
(***************************************************************************)
NoFileOnDisk == [state |-> "absent", content |-> <<>>]

TruncatedFile == [state |-> "truncated", content |-> <<>>]

CompleteFile(doc) == [state |-> "complete", content |-> <<doc>>]

(***************************************************************************)
(* SimpleHashCacheManager (simple-hash-cache.ts)                           *)
(***************************************************************************)
\* An entry of the cache: FileHashEntry without lastModified.
FileHashEntry(hash, chunkCount) == [hash |-> hash, chunkCount |-> chunkCount]

NoFiles == [f \in {} |-> FileHashEntry(calculateHash(1), 0)]

EmptyCache(projectPath, collectionName) ==
    [projectPath |-> projectPath, collectionName |-> collectionName, files |-> NoFiles]

\* loadCache that validates the project path only.
loadCache_AnyCollection(disk, projectPath, collectionName) ==
    IF disk.state = "complete" /\ disk.content[1].projectPath = projectPath
    THEN disk.content[1]
    ELSE EmptyCache(projectPath, collectionName)

\* loadCache: the persisted document if it parses and belongs to this project and
\* collection, otherwise a new empty cache.
loadCache(disk, projectPath, collectionName) ==
    IF disk.state = "complete"
          /\ disk.content[1].projectPath = projectPath
          /\ disk.content[1].collectionName = collectionName
    THEN disk.content[1]
    ELSE EmptyCache(projectPath, collectionName)

\* hasFileChanged with the comparison inverted (=== for !==).
hasFileChanged_Inverted(cache, relativePath, currentHash) ==
    IF relativePath \notin DOMAIN cache.files
    THEN TRUE
    ELSE cache.files[relativePath].hash = currentHash

\* hasFileChanged: a new file, or a stored hash that differs.
hasFileChanged(cache, relativePath, currentHash) ==
    IF relativePath \notin DOMAIN cache.files
    THEN TRUE
    ELSE cache.files[relativePath].hash # currentHash

\* updateFile that replaces the whole map by the one entry.
updateFile_ReplacesMap(cache, relativePath, hash, chunkCount) ==
    [cache EXCEPT !.files =
        [f \in {relativePath} |-> FileHashEntry(hash, chunkCount)]]

\* updateFile that adds the chunk count to the one already recorded.
updateFile_AddsChunks(cache, relativePath, hash, chunkCount) ==
    [cache EXCEPT !.files =
        [f \in (DOMAIN cache.files) \cup {relativePath} |->
            IF f = relativePath
            THEN FileHashEntry(hash,
                     chunkCount + (IF f \in DOMAIN cache.files
                                   THEN cache.files[f].chunkCount ELSE 0))
            ELSE cache.files[f]]]

\* updateFile: record or overwrite the entry of relativePath.
updateFile(cache, relativePath, hash, chunkCount) ==
    [cache EXCEPT !.files =
        [f \in (DOMAIN cache.files) \cup {relativePath} |->
            IF f = relativePath THEN FileHashEntry(hash, chunkCount) ELSE cache.files[f]]]

\* getDeletedFiles: the cached paths that are not among the current files.
getDeletedFiles(cache, currentFiles) ==
    {f \in DOMAIN cache.files : f \notin currentFiles}

RECURSIVE SumChunks(_, _)
SumChunks(files, S) ==
    IF S = {} THEN 0
    ELSE LET f == CHOOSE x \in S : TRUE
         IN files[f].chunkCount + SumChunks(files, S \ {f})

\* getStats: the number of entries and the sum of their chunk counts.
getStats(cache) ==
    [totalFiles |-> Cardinality(DOMAIN cache.files),
     totalChunks |-> SumChunks(cache.files, DOMAIN cache.files)]

\* clear: unlink the backing file if it exists; the manager's loaded cache is
\* left as it is.
clearCacheFile(disk) == IF disk.state = "absent" THEN disk ELSE NoFileOnDisk

(***************************************************************************)
(* ProjectMetadataManager (project-metadata.ts).  The manager's metadata   *)
(* is <<>> (null) or <<document>>.                                         *)
(***************************************************************************)
\* loadMetadata: the persisted document if the file exists and parses, else null.
\* (The stored projectPath is rewritten to the current one: one path here.)
loadMetadata(disk, projectPath) ==
    IF disk.state = "complete"
    THEN <<[disk.content[1] EXCEPT !.projectPath = projectPath]>>
    ELSE <<>>

\* initializeOrUpdate whose update branch leaves totalChunks as it was.
initializeOrUpdate_StaleTotal(metadata, params) ==
    IF metadata # <<>>
    THEN <<[metadata[1] EXCEPT
              !.projectPath = params.projectPath,
              !.collectionName = params.collectionName,
              !.isHybrid = params.isHybrid,
              !.embeddingModel = params.embeddingModel,
              !.embeddingDimension = params.embeddingDimension,
              !.indexedFileCount = params.indexedFileCount]>>
    ELSE <<[projectPath |-> params.projectPath,
            collectionName |-> params.collectionName,
            isHybrid |-> params.isHybrid,
            embeddingModel |-> params.embeddingModel,
            embeddingDimension |-> params.embeddingDimension,
            indexedFileCount |-> params.indexedFileCount,
            totalChunks |-> params.totalChunks]>>

\* initializeOrUpdate: overwrite the fields of the existing metadata, or create it.
initializeOrUpdate(metadata, params) ==
    IF metadata # <<>>
    THEN <<[metadata[1] EXCEPT
              !.projectPath = params.projectPath,
              !.collectionName = params.collectionName,
              !.isHybrid = params.isHybrid,
              !.embeddingModel = params.embeddingModel,
              !.embeddingDimension = params.embeddingDimension,
              !.indexedFileCount = params.indexedFileCount,
              !.totalChunks = params.totalChunks]>>
    ELSE <<[projectPath |-> params.projectPath,
            collectionName |-> params.collectionName,
            isHybrid |-> params.isHybrid,
            embeddingModel |-> params.embeddingModel,
            embeddingDimension |-> params.embeddingDimension,
            indexedFileCount |-> params.indexedFileCount,
            totalChunks |-> params.totalChunks]>>

\* validateAgainstConfig: one warning per field of the metadata that differs from
\* the configuration; valid when there is none (and when there is no metadata).
validateAgainstConfig(metadata, isHybrid, embeddingModel, embeddingDimension) ==
    IF metadata = <<>>
    THEN [valid |-> TRUE, warnings |-> {}]
    ELSE LET warnings ==
                 (IF metadata[1].isHybrid # isHybrid THEN {"mode"} ELSE {})
                 \cup (IF metadata[1].embeddingModel # embeddingModel THEN {"model"} ELSE {})
                 \cup (IF metadata[1].embeddingDimension # embeddingDimension
                       THEN {"dimension"} ELSE {})
         IN [valid |-> warnings = {}, warnings |-> warnings]

\* Strings are sequences of characters.  The characters of the model: two upper
\* case letters with their lower case, two more lower case letters, a digit,
\* and the separators of paths, URLs and host names.
UpperCase == {"G", "R", "Y", "E", "S"}

LowerCase == {"g", "r", "i", "t", "y", "e", "s", "n", "o"}

Digits == {"0", "1", "4", "5"}

Separators == {"/", ".", ":", "-", "_", "@"}

LowerOf ==
    [c \in UpperCase |-> CASE c = "G" -> "g" [] c = "R" -> "r" [] c = "Y" -> "y"
                           [] c = "E" -> "e" [] c = "S" -> "s"]

\* String.prototype.toLowerCase.
toLowerCase(s) ==
    [i \in 1..Len(s) |-> IF s[i] \in UpperCase THEN LowerOf[s[i]] ELSE s[i]]

\* s.replace(/[^a-zA-Z0-9]/g, '_').
replaceNonAlphanumeric(s) ==
    [i \in 1..Len(s) |->
        IF s[i] \in UpperCase \cup LowerCase \cup Digits THEN s[i] ELSE "_"]

\* String.prototype.substring(start, end) for 0 <= start <= end: the characters
\* at the 0-based positions start .. end-1 that exist.
substring(s, start, end) ==
    SubSeq(s, start + 1, IF end < Len(s) THEN end ELSE Len(s))

\* The length of the identifier part of a git-based collection name.
SlugLength == 32

\* The number of digits of the digest that a collection name carries.
HashLength == 8

\* The number of hexadecimal digits of an MD5 digest.
Md5HexLength == 32

\* crypto.createHash('md5').update(s).digest('hex'): 32 hexadecimal digits; the
\* digit at each position is determined by the input.
md5Hex(s) == [i \in 1..Md5HexLength |-> <<"md5", s, i>>]

\* An identifier that was not supplied (null, undefined).
NoIdentifier == <<>>

\* if (gitRepoIdentifier): neither null nor the empty string.
IsTruthy(gitRepoIdentifier) ==
    gitRepoIdentifier # <<>> /\ gitRepoIdentifier[1] # <<>>

\* The identifier part of a git-based name, without the truncation.
cleanIdentifier_NoTruncate(gitRepoIdentifier) ==
    toLowerCase(replaceNonAlphanumeric(gitRepoIdentifier))

\* cleanIdentifier: replace, lower-case, keep the first 32 characters.
cleanIdentifier(gitRepoIdentifier) ==
    substring(toLowerCase(replaceNonAlphanumeric(gitRepoIdentifier)), 0, SlugLength)

\* process.cwd().
Cwd == <<"home", "dev">>

\* The segments of a path after "", "." and ".." have been resolved from left
\* to right, on top of the segments in acc.
RECURSIVE normalizeSegments(_, _)
normalizeSegments(acc, segments) ==
    IF segments = <<>> THEN acc
    ELSE LET s == Head(segments)
         IN normalizeSegments(
                IF s \in {"", "."} THEN acc
                ELSE IF s = ".." THEN (IF acc = <<>> THEN acc
                                       ELSE SubSeq(acc, 1, Len(acc) - 1))
                ELSE Append(acc, s),
                Tail(segments))

\* path.resolve(p): the absolute, normalised path, as its segments below "/".
pathResolve(p) ==
    normalizeSegments(<<>>, IF p.absolute THEN p.segments ELSE Cwd \o p.segments)

\* generateCollectionName: the template string `${prefix}_git_${cleanIdentifier}
\* _${hash8}` is the record with git = <<cleanIdentifier>>, the template string
\* `${prefix}_${hash8}` the record with git = <<>>.
generateCollectionName(projectPath, isHybrid, gitRepoIdentifier) ==
    LET prefix == IF isHybrid THEN "hybrid_code_chunks" ELSE "code_chunks"
    IN IF IsTruthy(gitRepoIdentifier)
       THEN [prefix |-> prefix,
             git |-> <<cleanIdentifier(gitRepoIdentifier[1])>>,
             hash |-> substring(md5Hex(gitRepoIdentifier[1]), 0, HashLength)]
       ELSE [prefix |-> prefix,
             git |-> <<>>,
             hash |-> substring(md5Hex(pathResolve(projectPath)), 0, HashLength)]

\* clear: unlink project.json if it exists.
clearMetadataFile(disk) == IF disk.state = "absent" THEN disk ELSE NoFileOnDisk

Names == {generateCollectionName(ProjectPath, h, NoIdentifier) : h \in HybridModes}

\* The caches an earlier index of the project in the other search mode can have
\* left in file-hashes.json: its collection name, entries for some of the files.
OtherModeCaches ==
    {[projectPath |-> ProjectPath,
      collectionName |-> generateCollectionName(ProjectPath, TRUE, NoIdentifier),
      files |-> [f \in S |-> FileHashEntry(calculateHash(g[f]), Chunker(g[f]))]] :
        S \in SUBSET Files, g \in [Files -> Contents]}

(***************************************************************************)
(* The vector store (spec.md 4.6): per collection name, whether it exists, *)
(* its dimension, and the number of chunks stored per relativePath.        *)
(***************************************************************************)
NoCollection == [exists |-> FALSE, dimension |-> 0, chunks |-> [f \in Files |-> 0]]

\* dropCollection: idempotent.
dropCollection(vs, name) == [vs EXCEPT ![name] = NoCollection]

\* A filtered delete that deletes nothing.
deleteByPath_Nothing(vs, name, f) == vs

\* A filtered delete that drops the collection.
deleteByPath_DropsCollection(vs, name, f) == [vs EXCEPT ![name] = NoCollection]

\* Filtered delete on relativePath == f; nothing to do on an absent collection.
deleteByPath(vs, name, f) ==
    IF vs[name].exists THEN [vs EXCEPT ![name].chunks[f] = 0] ELSE vs

\* insert of n chunks of file f, of which `stored` end up in the collection; the
\* collection is created with the given dimension on its first insert.
insertChunks(vs, name, dimension, f, stored) ==
    [vs EXCEPT ![name] =
        [exists |-> TRUE,
         dimension |-> IF vs[name].exists THEN vs[name].dimension ELSE dimension,
         chunks |-> [vs[name].chunks EXCEPT ![f] = @ + stored]]]

\* verifyInsertedData: a warning when fewer than 80% of the expected rows are
\* observed; never an error.
verifyInsertedData(expectedCount, observed) ==
    [ok |-> TRUE, warning |-> 10 * observed < 8 * expectedCount]


(***************************************************************************)
(* State                                                                   *)
(***************************************************************************)
VARIABLES
    tree,             \* working tree: file -> content (0: no such file)
    diskCache,        \* <project>/.context/file-hashes.json
    diskMeta,         \* <project>/.context/project.json
    store,            \* the vector store: collection name -> collection
    phase,            \* Idle, Deleting, Indexing, Persisting, Done, Failed, Crashed
    cfg,              \* the run's configuration
    clean,            \* the run's options.clean
    fullIndex,        \* the run treats every file as changed (--clean, stale cache)
    collectionName,   \* the run's collection name
    cache,            \* SimpleHashCacheManager.cache of the run
    metadata,         \* ProjectMetadataManager.metadata of the run
    changed,          \* the diff set: files to (re)index
    deleted,          \* the diff set: cached files that are gone from the tree
    toDelete,         \* deleted files whose filtered delete is still to be issued
    todo,             \* changed files not yet taken up
    cur,              \* the file being processed, "-" when none
    step,             \* the next step of the file being processed / of persisting
    failures,         \* files whose processing failed in this run
    deletedOld,       \* files whose prior chunks were deleted in this run
    inserted,         \* files whose insert succeeded in this run
    embedCalls,       \* embedding API calls issued in this run
    cacheSaved,       \* writeFileSync of file-hashes.json returned normally
    metaSaved,        \* writeFileSync of project.json returned normally
    error,            \* the fatal error of the run, "" when none
    status,           \* the summary status of the run
    repeatRun         \* the run started right after a completed run that wrote
                      \* its cache, with the same configuration and no edit since

diskVars == <<diskCache, diskMeta, store>>

runVars == <<cfg, clean, fullIndex, collectionName, cache, metadata, changed,
             deleted, toDelete, todo, cur, step, failures, deletedOld, inserted, embedCalls,
             cacheSaved, metaSaved, error, status>>

vars == <<tree, diskVars, phase, runVars, repeatRun>>

\* The project's lock file and the runs that compete for it.
VARIABLES
    lockFile,         \* <project>/.context lock file: <<>> or <<[pid, timestamp]>>
    clock,            \* the time, in ticks of half an hour
    pc,               \* run -> idle, indexing, writingCache, writingMeta, rejected
    startedAt         \* run -> the time it took the lock (0 when idle)

lockVars == <<lockFile, clock, pc, startedAt>>

\* The runs that compete for one project.
Runs == {"run1", "run2", "run3"}

NoLock == <<>>

\* No lock file, no run.
LockIdle ==
    /\ lockFile = NoLock
    /\ clock = 0
    /\ pc = [p \in Runs |-> "idle"]
    /\ startedAt = [p \in Runs |-> 0]

\* The embedding client (OpenAIEmbedding) and the operation it is carrying out.
VARIABLES
    ecfg,             \* OpenAIEmbeddingConfig: model, baseURL, dimensions (0: not set)
    dimension,        \* this.dimension
    op,               \* the operation under way: embed, embedBatch, detectDimension
    epc,              \* idle, dim, probe, request, done, failed
    texts,            \* the operation's input
    batches,          \* embedBatch: the batches still to be sent
    results,          \* the EmbeddingVector results gathered so far
    ret,              \* the value detectDimension returned (0: none)
    calls,            \* the provider requests the operation issued, in order
    fault,            \* a provider request of the operation was answered by an error
    failure,          \* the error the operation threw: <<>> or <<error>>
    okProbes,         \* answered provider calls of detectDimension in this process
    opsDone           \* operations finished in this process

embedVars == <<ecfg, dimension, op, epc, texts, batches, results, ret, calls, fault,
               failure, okProbes, opsDone>>

\* The client of text-embedding-3-small with no operation under way.
EmbedIdle ==
    /\ ecfg = [model |-> "text-embedding-3-small", baseURL |-> "api.openai.com",
               dimensions |-> 0]
    /\ dimension = ModelDimension["text-embedding-3-small"]
    /\ op = "-" /\ epc = "idle"
    /\ texts = <<>> /\ batches = <<>> /\ results = <<>>
    /\ ret = 0 /\ calls = <<>> /\ fault = FALSE /\ failure = <<>>
    /\ okProbes = 0 /\ opsDone = 0

\* Hybrid search: one query and its answer.
VARIABLES
    query,            \* limit, the two ranked lists of the sub-requests, the filter
    hits,             \* the ordered list of {document, score} returned
    searched          \* the query was answered

searchVars == <<query, hits, searched>>

\* No query yet.
SearchIdle ==
    /\ query = [limit |-> 1, dense |-> <<>>, sparse |-> <<>>, passing |-> {}]
    /\ hits = <<>>
    /\ searched = FALSE

\* Collection naming: one call of generateCollectionName.
VARIABLES
    namePath,         \* the projectPath argument
    nameHybrid,       \* the isHybrid argument
    nameGit,          \* the gitRepoIdentifier argument: <<>> or <<string>>
    generated         \* the name returned: <<>> or <<name>>

nameVars == <<namePath, nameHybrid, nameGit, generated>>

\* No call yet.
NameIdle ==
    /\ namePath = ProjectPath
    /\ nameHybrid = FALSE
    /\ nameGit = NoIdentifier
    /\ generated = <<>>

\* The interactive query tool (manual-query-interactive.js): its settings and
\* the last limit command.
VARIABLES
    settings,         \* settings: the result limit
    limitArg,         \* the argument of the last limit command: <<>> or <<string>>
    limitBefore       \* settings.limit when the last limit command was entered

promptVars == <<settings, limitArg, limitBefore>>

\* let settings = { limit: 10 }, no command entered.
PromptIdle ==
    /\ settings = [limit |-> 10]
    /\ limitArg = <<>>
    /\ limitBefore = 10

\* The one-shot query tool (manual-query.js): one invocation.
VARIABLES
    options,          \* the options parseArgs returned
    parsed,           \* parseArgs has run
    passedLimit       \* the limit passed to query / hybridSearch: <<>> or <<n>>

oneShotVars == <<options, parsed, passedLimit>>

\* The defaults of parseArgs, before the arguments are read.
OneShotIdle ==
    /\ options = [operation |-> "list_collections", limit |-> 10]
    /\ parsed = FALSE
    /\ passedLimit = <<>>

\* The destructive commands of the interactive query tool: drop, clearindex,
\* reindex.
VARIABLES
    interactive,      \* the tool runs a session (readline) or one command from argv
    question,         \* the confirmation asked and not yet answered: <<>> or <<q>>
    dbCollections,    \* the collections of the vector database
    apiLog,           \* dropCollection / clearIndex / indexCodebase calls, in order
    commandsRun       \* commands entered so far

confirmVars == <<interactive, question, dbCollections, apiLog, commandsRun>>

\* A session that has just started, on a database without collections.
ConfirmIdle ==
    /\ interactive = TRUE
    /\ question = <<>>
    /\ dbCollections = {}
    /\ apiLog = <<>>
    /\ commandsRun = 0

\* The log directory <home>/.context/logs and the IndexLogger instances.
VARIABLES
    logDir,           \* file name -> [mtime, writers: the loggers that appended,
                      \* projects: the project names they log for]
    dateNow,          \* Date.now(), in milliseconds
    dirBefore,        \* the directory when cleanOldLogs last ran: <<>> or <<dir>>
    loggers,          \* logger -> <<>> or <<[projectName, logFile]>>
    lookup            \* the last getLatestLogFile call: <<>> or <<[projectPath, result]>>

logVars == <<logDir, dateNow, dirBefore, loggers, lookup>>

\* The indexing processes that can each construct an IndexLogger.
LoggerIds == {"logger1", "logger2"}

EmptyDir == [n \in {} |-> [mtime |-> 0, writers |-> {}, projects |-> {}]]

\* An empty log directory, no logger.
LogIdle ==
    /\ logDir = EmptyDir
    /\ dateNow = 0
    /\ dirBefore = <<>>
    /\ loggers = [l \in LoggerIds |-> <<>>]
    /\ lookup = <<>>

\* One SimpleHashCacheManager in use and its backing file.
VARIABLES
    mgrCache,         \* this.cache
    mgrFile,          \* <project>/.context/file-hashes.json
    sinceClear        \* <<>>, or after clear(): <<[updated: the paths passed to
                      \* updateFile since, saved: save() was called since]>>

managerVars == <<mgrCache, mgrFile, sinceClear>>

\* A manager constructed for the dense collection of a project without a cache
\* file.
ManagerIdle ==
    /\ mgrCache = EmptyCache(ProjectPath,
                             generateCollectionName(ProjectPath, FALSE, NoIdentifier))
    /\ mgrFile = NoFileOnDisk
    /\ sinceClear = <<>>

\* sync-index and the snapshot file <home>/.context/mcp-codebase-snapshot.json.
VARIABLES
    snapshotFile,     \* the snapshot file: absent, malformed or one document
    syncRun           \* the last sync-index run: <<>> or <<how indexCodebase ended>>

snapshotVars == <<snapshotFile, syncRun>>

\* No snapshot file, no run.
SnapshotIdle ==
    /\ snapshotFile = NoFileOnDisk
    /\ syncRun = <<>>

\* stop-indexing and the process table of the machine.
VARIABLES
    processes,        \* pid -> the running process: its program and argument
    stopped,          \* the project name of the last stop-indexing: <<>> or <<name>>
    signals           \* the signals that run sent: a set of [pid, signal]

stopVars == <<processes, stopped, signals>>

\* No process of interest, no stop-indexing run.
StopIdle ==
    /\ processes = <<>>
    /\ stopped = <<>>
    /\ signals = {}

\* The command line tools and the logger.
toolVars == <<nameVars, promptVars, oneShotVars, confirmVars, logVars, managerVars, snapshotVars, stopVars>>

ToolsIdle == NameIdle /\ PromptIdle /\ OneShotIdle /\ ConfirmIdle /\ LogIdle /\ ManagerIdle /\ SnapshotIdle /\ StopIdle

\* The state of the components an indexing run of the controller leaves alone.
otherVars == <<lockVars, embedVars, searchVars, toolVars>>

outsideLock == <<vars, embedVars, searchVars, toolVars>>

outsideEmbed == <<vars, lockVars, searchVars, toolVars>>

outsideSearch == <<vars, lockVars, embedVars, toolVars>>

coreVars == <<vars, lockVars, embedVars, searchVars>>

outsideName == <<coreVars, promptVars, oneShotVars, confirmVars, logVars, managerVars, snapshotVars, stopVars>>

outsidePrompt == <<coreVars, nameVars, oneShotVars, confirmVars, logVars, managerVars, snapshotVars, stopVars>>

outsideOneShot == <<coreVars, nameVars, promptVars, confirmVars, logVars, managerVars, snapshotVars, stopVars>>

outsideConfirm == <<coreVars, nameVars, promptVars, oneShotVars, logVars, managerVars, snapshotVars, stopVars>>

outsideLog == <<coreVars, nameVars, promptVars, oneShotVars, confirmVars, managerVars, snapshotVars, stopVars>>

outsideManager == <<coreVars, nameVars, promptVars, oneShotVars, confirmVars, logVars, snapshotVars, stopVars>>

outsideSnapshot == <<coreVars, nameVars, promptVars, oneShotVars, confirmVars, logVars, managerVars, stopVars>>

outsideStop == <<coreVars, nameVars, promptVars, oneShotVars, confirmVars, logVars, managerVars, snapshotVars>>

Quiescent == {"Idle", "Done", "Failed", "Crashed"}

Running == {"Deleting", "Indexing", "Persisting"}

CurrentFiles == {f \in Files : tree[f] # 0}

\* No run in progress and none to report: the run's variables at their defaults.
NoRun ==
    /\ cfg' = NoConfig
    /\ clean' = FALSE
    /\ fullIndex' = FALSE
    /\ collectionName' = generateCollectionName(ProjectPath, FALSE, NoIdentifier)
    /\ cache' = EmptyCache(ProjectPath, generateCollectionName(ProjectPath, FALSE, NoIdentifier))
    /\ metadata' = <<>>
    /\ changed' = {}
    /\ deleted' = {}
    /\ toDelete' = {}
    /\ todo' = {}
    /\ cur' = "-"
    /\ step' = "-"
    /\ failures' = {}
    /\ deletedOld' = {}
    /\ inserted' = {}
    /\ embedCalls' = 0
    /\ cacheSaved' = FALSE
    /\ metaSaved' = FALSE
    /\ error' = ""
    /\ status' = "none"
    /\ repeatRun' = FALSE

IndexInit ==
    /\ tree = [f \in Files |-> 0]
    /\ diskCache \in {NoFileOnDisk} \cup {CompleteFile(d) : d \in OtherModeCaches}
    /\ diskMeta = NoFileOnDisk
    /\ store = [n \in Names |-> NoCollection]
    /\ phase = "Idle"
    /\ cfg = NoConfig
    /\ clean = FALSE
    /\ fullIndex = FALSE
    /\ collectionName = generateCollectionName(ProjectPath, FALSE, NoIdentifier)
    /\ cache = EmptyCache(ProjectPath, generateCollectionName(ProjectPath, FALSE, NoIdentifier))
    /\ metadata = <<>>
    /\ changed = {}
    /\ deleted = {}
    /\ toDelete = {}
    /\ todo = {}
    /\ cur = "-"
    /\ step = "-"
    /\ failures = {}
    /\ deletedOld = {}
    /\ inserted = {}
    /\ embedCalls = 0
    /\ cacheSaved = FALSE
    /\ metaSaved = FALSE
    /\ error = ""
    /\ status = "none"
    /\ repeatRun = FALSE

Init == IndexInit /\ LockIdle /\ EmbedIdle /\ SearchIdle /\ ToolsIdle

(***************************************************************************)
(* The working tree changes between runs: a file is created, modified or   *)
(* removed.                                                                *)
(***************************************************************************)
EditFile(f, c) ==
    /\ phase \in Quiescent
    /\ c # tree[f]
    /\ tree' = [tree EXCEPT ![f] = c]
    /\ phase' = "Idle"
    /\ NoRun
    /\ UNCHANGED diskVars
    /\ UNCHANGED otherVars

(***************************************************************************)
(* The indexing controller (spec.md 4.7), one run at a time                *)
(***************************************************************************)
\* Step 1: the collection name of the metadata if it is present and consistent
\* with the configuration, otherwise the generated one.
ResolveCollectionName(md, c) ==
    IF md # <<>>
          /\ validateAgainstConfig(md, c.isHybrid, c.embeddingModel,
                                   c.embeddingDimension).valid
    THEN md[1].collectionName
    ELSE generateCollectionName(ProjectPath, c.isHybrid, NoIdentifier)

\* A dimension check that only warns.
DimensionMismatch_WarnOnly(md, vs, name, c) == FALSE

\* The configured dimension disagrees with the one recorded in the metadata or
\* with the one the collection was created with: fatal unless the run is --clean.
DimensionMismatch(md, vs, name, c) ==
    \/ "dimension" \in validateAgainstConfig(md, c.isHybrid, c.embeddingModel,
                                             c.embeddingDimension).warnings
    \/ vs[name].exists /\ vs[name].dimension # c.embeddingDimension

\* Step 2: the persisted cache belongs to another collection.
IsStale(disk, name) ==
    disk.state = "complete" /\ disk.content[1].collectionName # name

\* The phase that follows, given the deletes and the files still to be done.
PhaseFor(del, files) ==
    IF del # {} THEN "Deleting" ELSE IF files # {} THEN "Indexing" ELSE "Persisting"

StepFor(del, files) == IF del = {} /\ files = {} THEN "saveCache" ELSE "-"

\* A run that stops before any write: ConfigurationError (dimension mismatch).
StartRunAborted(c) ==
    /\ phase \in Quiescent
    /\ LET md == loadMetadata(diskMeta, ProjectPath)
           name == ResolveCollectionName(md, c)
       IN /\ DimensionMismatch(md, store, name, c)
          /\ collectionName' = name
          /\ metadata' = md
          /\ cache' = EmptyCache(ProjectPath, name)
    /\ cfg' = c
    /\ clean' = FALSE
    /\ fullIndex' = FALSE
    /\ phase' = "Failed"
    /\ error' = "ConfigurationError"
    /\ status' = "failed"
    /\ changed' = {} /\ deleted' = {} /\ toDelete' = {} /\ todo' = {}
    /\ cur' = "-" /\ step' = "-"
    /\ failures' = {} /\ deletedOld' = {} /\ inserted' = {}
    /\ embedCalls' = 0
    /\ cacheSaved' = FALSE /\ metaSaved' = FALSE
    /\ repeatRun' = FALSE
    /\ UNCHANGED <<tree, diskVars>>
    /\ UNCHANGED otherVars

\* Steps 1 to 4: resolve the name, load the cache, enumerate and diff.  On --clean
\* the collection is dropped and both documents are removed before the managers
\* of the run are constructed; on a stale cache (what loadCache answers with an
\* empty cache) the collection is dropped and the cache file removed.
StartRun(c, cl) ==
    /\ phase \in Quiescent
    /\ LET md == loadMetadata(diskMeta, ProjectPath)
           name == ResolveCollectionName(md, c)
           reset == cl \/ IsStale(diskCache, name)
           loaded == loadCache(IF cl THEN clearCacheFile(diskCache) ELSE diskCache,
                               ProjectPath, name)
           chg == {f \in CurrentFiles :
                      hasFileChanged(loaded, f, calculateHash(tree[f]))}
           del == getDeletedFiles(loaded, CurrentFiles)
       IN /\ cl \/ ~DimensionMismatch(md, store, name, c)
          /\ collectionName' = name
          /\ store' = IF reset THEN dropCollection(store, name) ELSE store
          /\ diskCache' = (IF reset THEN clearCacheFile(diskCache) ELSE diskCache)
          /\ fullIndex' = reset
          /\ diskMeta' = IF cl THEN clearMetadataFile(diskMeta) ELSE diskMeta
          /\ metadata' = IF cl THEN <<>> ELSE md
          /\ cache' = loaded
          /\ changed' = chg
          /\ todo' = chg
          /\ deleted' = del
          /\ toDelete' = del
          /\ phase' = PhaseFor(del, chg)
          /\ step' = StepFor(del, chg)
    /\ cfg' = c
    /\ clean' = cl
    /\ cur' = "-"
    /\ failures' = {} /\ deletedOld' = {} /\ inserted' = {}
    /\ embedCalls' = 0
    /\ cacheSaved' = FALSE /\ metaSaved' = FALSE
    /\ error' = "" /\ status' = "running"
    /\ repeatRun' = (phase = "Done" /\ status = "completed" /\ cacheSaved
                        /\ c = cfg /\ ~cl)
    /\ UNCHANGED tree
    /\ UNCHANGED otherVars

\* Step 5: the filtered delete for a deleted file.  The cache manager has no
\* operation that removes an entry, so the cache is left as it is.
DeleteRemoved(f) ==
    /\ phase = "Deleting"
    /\ f \in toDelete
    /\ store' = deleteByPath(store, collectionName, f)
    /\ toDelete' = toDelete \ {f}
    /\ phase' = PhaseFor(toDelete', todo)
    /\ step' = StepFor(toDelete', todo)
    /\ UNCHANGED <<tree, diskCache, diskMeta, cfg, clean, fullIndex, collectionName, cache,
                   metadata, changed, deleted, todo, cur, failures, deletedOld, inserted,
                   embedCalls, cacheSaved, metaSaved, error, status,
                   repeatRun>>
    /\ UNCHANGED otherVars

\* Step 6, first part: take up a changed file and delete its previous chunks.
DeletePrior(f) ==
    /\ phase = "Indexing"
    /\ cur = "-"
    /\ f \in todo
    /\ store' = deleteByPath(store, collectionName, f)
    /\ deletedOld' = deletedOld \cup {f}
    /\ todo' = todo \ {f}
    /\ cur' = f
    /\ step' = "embed"
    /\ UNCHANGED <<tree, diskCache, diskMeta, phase, cfg, clean, fullIndex, collectionName,
                   cache, metadata, changed, deleted, toDelete, failures, inserted,
                   embedCalls, cacheSaved, metaSaved, error, status,
                   repeatRun>>
    /\ UNCHANGED otherVars

\* The file in hand is finished (indexed or failed): on to the next, or persist.
FileDone ==
    /\ cur' = "-"
    /\ phase' = PhaseFor({}, todo)
    /\ step' = StepFor({}, todo)

\* Step 6: chunk the file and embed its chunks; a per-file failure is recorded
\* and the run goes on.
Embed(ok) ==
    /\ phase = "Indexing"
    /\ step = "embed"
    /\ embedCalls' = embedCalls + 1
    /\ IF ok
       THEN /\ step' = "insert"
            /\ UNCHANGED <<phase, cur, failures>>
       ELSE /\ failures' = failures \cup {cur}
            /\ FileDone
    /\ UNCHANGED <<tree, diskVars, cfg, clean, fullIndex, collectionName, cache, metadata,
                   changed, deleted, toDelete, todo, deletedOld, inserted, cacheSaved,
                   metaSaved, error, status, repeatRun>>
    /\ UNCHANGED otherVars

\* Step 6 to 8: insert the file's chunks; the insert succeeds with `stored` of
\* them observed afterwards, a shortfall being a warning only.
Insert(stored) ==
    /\ phase = "Indexing"
    /\ step = "insert"
    /\ stored \in 0..Chunker(tree[cur])
    /\ store' = insertChunks(store, collectionName, cfg.embeddingDimension, cur, stored)
    /\ verifyInsertedData(Chunker(tree[cur]), stored).ok
    /\ inserted' = inserted \cup {cur}
    /\ step' = "update"
    /\ UNCHANGED <<tree, diskCache, diskMeta, phase, cfg, clean, fullIndex, collectionName,
                   cache, metadata, changed, deleted, toDelete, todo, cur, failures,
                   deletedOld, embedCalls, cacheSaved, metaSaved, error, status,
                   repeatRun>>
    /\ UNCHANGED otherVars

\* The insert fails for this file: recorded, the cache entry is not updated.
InsertFails ==
    /\ phase = "Indexing"
    /\ step = "insert"
    /\ failures' = failures \cup {cur}
    /\ FileDone
    /\ UNCHANGED <<tree, diskVars, cfg, clean, fullIndex, collectionName, cache, metadata,
                   changed, deleted, toDelete, todo, deletedOld, inserted, embedCalls,
                   cacheSaved, metaSaved, error, status, repeatRun>>
    /\ UNCHANGED otherVars

\* After the insert succeeded: record the file's hash and chunk count.
UpdateCache ==
    /\ phase = "Indexing"
    /\ step = "update"
    /\ cache' = updateFile(cache, cur, calculateHash(tree[cur]), Chunker(tree[cur]))
    /\ FileDone
    /\ UNCHANGED <<tree, diskVars, cfg, clean, fullIndex, collectionName, metadata, changed,
                   deleted, toDelete, todo, failures, deletedOld, inserted, embedCalls,
                   cacheSaved, metaSaved, error, status, repeatRun>>
    /\ UNCHANGED otherVars

(***************************************************************************)
(* Step 9: persist the cache, then the metadata.                           *)
(* SimpleHashCacheManager.save is fs.writeFileSync on file-hashes.json     *)
(* itself inside try/catch: the file is opened with truncation, then the   *)
(* document is written; an exception is logged and save() returns.         *)
(***************************************************************************)
\* writeFileSync throws before the file is touched (it cannot be opened).
SaveCacheOpenFails ==
    /\ phase = "Persisting"
    /\ step = "saveCache"
    /\ cacheSaved' = FALSE
    /\ step' = "saveMeta"
    /\ UNCHANGED <<tree, diskVars, phase, cfg, clean, fullIndex, collectionName, cache,
                   metadata, changed, deleted, toDelete, todo, cur, failures, deletedOld,
                   inserted, embedCalls, metaSaved, error, status,
                   repeatRun>>
    /\ UNCHANGED otherVars

\* writeFileSync has opened (truncated) the file and not yet written the document.
SaveCacheBegin ==
    /\ phase = "Persisting"
    /\ step = "saveCache"
    /\ diskCache' = TruncatedFile
    /\ step' = "writingCache"
    /\ UNCHANGED <<tree, diskMeta, store, phase, cfg, clean, fullIndex, collectionName, cache,
                   metadata, changed, deleted, toDelete, todo, cur, failures, deletedOld,
                   inserted, embedCalls, cacheSaved, metaSaved, error,
                   status, repeatRun>>
    /\ UNCHANGED otherVars

\* The write completes, or throws midway (caught and logged); save() returns.
SaveCacheEnd(ok) ==
    /\ phase = "Persisting"
    /\ step = "writingCache"
    /\ diskCache' = IF ok THEN CompleteFile(cache) ELSE diskCache
    /\ cacheSaved' = ok
    /\ step' = "saveMeta"
    /\ UNCHANGED <<tree, diskMeta, store, phase, cfg, clean, fullIndex, collectionName, cache,
                   metadata, changed, deleted, toDelete, todo, cur, failures, deletedOld,
                   inserted, embedCalls, metaSaved, error, status,
                   repeatRun>>
    /\ UNCHANGED otherVars

\* The parameters the controller hands to initializeOrUpdate: the configuration
\* and the statistics of the cache.
MetadataParams ==
    [projectPath |-> ProjectPath,
     collectionName |-> collectionName,
     isHybrid |-> cfg.isHybrid,
     embeddingModel |-> cfg.embeddingModel,
     embeddingDimension |-> cfg.embeddingDimension,
     indexedFileCount |-> getStats(cache).totalFiles,
     totalChunks |-> getStats(cache).totalChunks]

\* initializeOrUpdate, then ProjectMetadataManager.save: writeFileSync inside
\* try/catch, an exception logged.
SaveMetadata(ok) ==
    /\ phase = "Persisting"
    /\ step = "saveMeta"
    /\ metadata' = initializeOrUpdate(metadata, MetadataParams)
    /\ diskMeta' = IF ok THEN CompleteFile(metadata'[1]) ELSE diskMeta
    /\ metaSaved' = ok
    /\ step' = "finish"
    /\ UNCHANGED <<tree, diskCache, store, phase, cfg, clean, fullIndex, collectionName, cache,
                   changed, deleted, toDelete, todo, cur, failures, deletedOld, inserted,
                   embedCalls, cacheSaved, error, status, repeatRun>>
    /\ UNCHANGED otherVars

\* The run summary: completed, or partial when some file failed.
FinishRun ==
    /\ phase = "Persisting"
    /\ step = "finish"
    /\ phase' = "Done"
    /\ step' = "-"
    /\ status' = IF failures = {} THEN "completed" ELSE "partial"
    /\ UNCHANGED <<tree, diskVars, cfg, clean, fullIndex, collectionName, cache, metadata,
                   changed, deleted, toDelete, todo, cur, failures, deletedOld, inserted,
                   embedCalls, cacheSaved, metaSaved, error, repeatRun>>
    /\ UNCHANGED otherVars

\* The process dies in the middle of a run: what is on disk and in the vector
\* store stays as it is.
Crash ==
    /\ phase \in Running
    /\ phase' = "Crashed"
    /\ NoRun
    /\ UNCHANGED <<tree, diskVars>>
    /\ UNCHANGED otherVars

Next ==
    \/ \E f \in Files, c \in 0..MaxContent : EditFile(f, c)
    \/ \E c \in Configs : StartRunAborted(c)
    \/ \E c \in Configs, cl \in BOOLEAN : StartRun(c, cl)
    \/ \E f \in Files : DeleteRemoved(f)
    \/ \E f \in Files : DeletePrior(f)
    \/ \E ok \in BOOLEAN : Embed(ok)
    \/ \E n \in 0..MaxContent : Insert(n)
    \/ InsertFails
    \/ UpdateCache
    \/ SaveCacheOpenFails
    \/ SaveCacheBegin
    \/ \E ok \in BOOLEAN : SaveCacheEnd(ok)
    \/ \E ok \in BOOLEAN : SaveMetadata(ok)
    \/ FinishRun
    \/ Crash

Spec == Init /\ [][Next]_vars

\* The project after an index in dense mode followed by one in hybrid mode: the
\* dense collection holds the chunks of src/a.ts, while file-hashes.json and
\* project.json are those of the hybrid index.
ModeSwitchInit ==
    /\ tree = [f \in Files |-> IF f = "src/a.ts" THEN 1 ELSE 0]
    /\ diskCache = CompleteFile(
           [projectPath |-> ProjectPath,
            collectionName |-> generateCollectionName(ProjectPath, TRUE, NoIdentifier),
            files |-> [f \in {"src/a.ts"} |->
                          FileHashEntry(calculateHash(1), Chunker(1))]])
    /\ diskMeta = CompleteFile(
           [projectPath |-> ProjectPath,
            collectionName |-> generateCollectionName(ProjectPath, TRUE, NoIdentifier),
            isHybrid |-> TRUE,
            embeddingModel |-> "text-embedding-3-small",
            embeddingDimension |-> ModelDimension["text-embedding-3-small"],
            indexedFileCount |-> 1,
            totalChunks |-> Chunker(1)])
    /\ store = [n \in Names |->
                   insertChunks([m \in Names |-> NoCollection], n,
                                ModelDimension["text-embedding-3-small"],
                                "src/a.ts", Chunker(1))[n]]
    /\ phase = "Idle"
    /\ cfg = NoConfig
    /\ clean = FALSE
    /\ fullIndex = FALSE
    /\ collectionName = generateCollectionName(ProjectPath, FALSE, NoIdentifier)
    /\ cache = EmptyCache(ProjectPath, generateCollectionName(ProjectPath, FALSE, NoIdentifier))
    /\ metadata = <<>>
    /\ changed = {} /\ deleted = {} /\ toDelete = {} /\ todo = {}
    /\ cur = "-" /\ step = "-"
    /\ failures = {} /\ deletedOld = {} /\ inserted = {}
    /\ embedCalls = 0
    /\ cacheSaved = FALSE /\ metaSaved = FALSE
    /\ error = "" /\ status = "none"
    /\ repeatRun = FALSE
    /\ LockIdle /\ EmbedIdle /\ SearchIdle /\ ToolsIdle

ModeSwitchSpec == ModeSwitchInit /\ [][Next]_vars

TypeOK ==
    /\ phase \in Quiescent \cup Running
    /\ \A f \in Files : tree[f] \in 0..MaxContent
    /\ changed \subseteq Files /\ todo \subseteq changed /\ toDelete \subseteq Files
    /\ cur \in Files \cup {"-"}
    /\ embedCalls \in 0..Cardinality(Files)

(***************************************************************************)
(* The project lock (spec.md 5): a lock file in the metadata directory     *)
(* holding pid and timestamp; a run that finds a lock of at most one hour  *)
(* is rejected, an older lock is reclaimed.                                *)
(***************************************************************************)
\* The last tick of the clock.
MaxClock == 5

\* One hour, in ticks.
HourTicks == 2

\* A lock that is reclaimed whatever its age.
LockIsStale_Always(lock, now) == lock # NoLock

\* The lock is older than one hour.
LockIsStale(lock, now) == lock # NoLock /\ now - lock[1].timestamp > HourTicks

\* The indexer at rest: the lock is studied on its own.
IndexerIdle == IndexInit /\ diskCache = NoFileOnDisk

LockInit == IndexerIdle /\ LockIdle /\ EmbedIdle /\ SearchIdle /\ ToolsIdle

Tick ==
    /\ clock < MaxClock
    /\ clock' = clock + 1
    /\ UNCHANGED <<lockFile, pc, startedAt, outsideLock>>

\* A run starts: no lock file, or a stale one, which it replaces by its own.
AcquireLock(p) ==
    /\ pc[p] = "idle"
    /\ lockFile = NoLock \/ LockIsStale(lockFile, clock)
    /\ lockFile' = <<[pid |-> p, timestamp |-> clock]>>
    /\ pc' = [pc EXCEPT ![p] = "indexing"]
    /\ startedAt' = [startedAt EXCEPT ![p] = clock]
    /\ UNCHANGED <<clock, outsideLock>>

\* A run starts and finds a lock of at most one hour: it is rejected.
RejectRun(p) ==
    /\ pc[p] = "idle"
    /\ lockFile # NoLock /\ ~LockIsStale(lockFile, clock)
    /\ pc' = [pc EXCEPT ![p] = "rejected"]
    /\ UNCHANGED <<lockFile, clock, startedAt, outsideLock>>

\* The rejected run has reported its error and is gone.
RunRejected(p) ==
    /\ pc[p] = "rejected"
    /\ pc' = [pc EXCEPT ![p] = "idle"]
    /\ UNCHANGED <<lockFile, clock, startedAt, outsideLock>>

\* The run persists its HashCache document, then its ProjectMetadata.
WriteCache(p) ==
    /\ pc[p] = "indexing"
    /\ pc' = [pc EXCEPT ![p] = "writingCache"]
    /\ UNCHANGED <<lockFile, clock, startedAt, outsideLock>>

WriteMetadata(p) ==
    /\ pc[p] = "writingCache"
    /\ pc' = [pc EXCEPT ![p] = "writingMeta"]
    /\ UNCHANGED <<lockFile, clock, startedAt, outsideLock>>

\* The run ends and removes the lock file if it is still its own.
ReleaseLock(p) ==
    /\ pc[p] = "writingMeta"
    /\ pc' = [pc EXCEPT ![p] = "idle"]
    /\ startedAt' = [startedAt EXCEPT ![p] = 0]
    /\ lockFile' = IF lockFile # NoLock /\ lockFile[1].pid = p THEN NoLock ELSE lockFile
    /\ UNCHANGED <<clock, outsideLock>>

LockNext ==
    \/ Tick
    \/ \E p \in Runs : AcquireLock(p)
    \/ \E p \in Runs : RejectRun(p)
    \/ \E p \in Runs : RunRejected(p)
    \/ \E p \in Runs : WriteCache(p)
    \/ \E p \in Runs : WriteMetadata(p)
    \/ \E p \in Runs : ReleaseLock(p)

LockSpec == LockInit /\ [][LockNext]_<<vars, otherVars>>

\* The age of the lock file, 0 when there is none.
LockAge == IF lockFile = NoLock THEN 0 ELSE clock - lockFile[1].timestamp

Writing == {"writingCache", "writingMeta"}

Holding == {"indexing"} \cup Writing

(***************************************************************************)
(* The embedding client: OpenAIEmbedding                                    *)
(***************************************************************************)
\* The longest input of embedBatch.
MaxTexts == 23

\* The operations of one process.
MaxOps == 2

\* Alibaba Cloud has a batch size limit of 10.
AlibabaBatchLimit == 10

\* One model of getSupportedModels and one that is not in it.
EmbedModels == {"text-embedding-v4", "custom-embedding"}

BaseURLs == {"api.openai.com", "dashscope.aliyuncs.com"}

\* config.dimensions: not set, or a custom dimension.
CustomDimensions == {0, 2048}

EmbedConfigs ==
    {[model |-> m, baseURL |-> u, dimensions |-> d] :
        m \in EmbedModels, u \in BaseURLs, d \in CustomDimensions}

\* knownModels[model]
IsKnownModel(model) == model \in DOMAIN ModelDimension

\* The length of the vectors the provider returns when the request names none.
NativeDimension(model) == IF IsKnownModel(model) THEN ModelDimension[model] ELSE 768

\* updateModelSettings: this.dimension after construction.
updateModelSettings(config) ==
    IF config.dimensions # 0 THEN config.dimensions
    ELSE IF IsKnownModel(config.model) THEN ModelDimension[config.model]
    ELSE 1536

\* getDimension: the table's dimension for a known model, else this.dimension.
getDimension(config, dim) ==
    IF IsKnownModel(config.model) THEN ModelDimension[config.model] ELSE dim

\* detectDimension before any provider call: <<D>> when it answers at once,
\* <<>> when it has to ask the provider.
detectDimensionAtOnce(config) ==
    IF config.dimensions # 0 THEN <<config.dimensions>>
    ELSE IF IsKnownModel(config.model) THEN <<ModelDimension[config.model]>>
    ELSE <<>>

isAlibaba(config) == config.baseURL = "dashscope.aliyuncs.com"

maxBatchSize(config, txts) ==
    IF isAlibaba(config) THEN AlibabaBatchLimit ELSE Len(txts)

\* embedBatch: the batches it sends, in order.  An input within the limit (the
\* empty one too) is one batch; a longer one is cut into slices of the limit.
RECURSIVE Batches(_, _)
Batches(txts, max) ==
    IF Len(txts) <= max
    THEN <<txts>>
    ELSE <<SubSeq(txts, 1, max)>> \o Batches(SubSeq(txts, max + 1, Len(txts)), max)

\* A request that leaves out the dimensions parameter.
EmbedRequest_NoDimensions(config, input) ==
    [model |-> config.model, input |-> input, dimensions |-> 0]

\* embedRequest: model, input and, if configured, dimensions.
EmbedRequest(config, input) ==
    [model |-> config.model, input |-> input, dimensions |-> config.dimensions]

\* The provider's embedding of one text: of the requested length if the request
\* names one, of the model's own otherwise.
ProviderVector(request, t) ==
    [of |-> t,
     length |-> IF request.dimensions # 0 THEN request.dimensions
                ELSE NativeDimension(request.model)]

\* response.data of an answered request: one item for each input, in input order.
ProviderData(request) ==
    [i \in 1..Len(request.input) |-> ProviderVector(request, request.input[i])]

\* What the provider answers: data, or one of its errors.
Outcomes == {"ok", "auth", "timeout", "rateLimit", "malformed"}

\* throw new Error(`${prefix}: ${errorMessage}`)
EmbedError(prefix, cause) == [name |-> "Error", message |-> <<prefix, cause>>]

ErrorPrefix(o) ==
    IF o = "embed" THEN "Failed to generate OpenAI embedding"
    ELSE IF o = "embedBatch" THEN "Failed to generate OpenAI batch embeddings"
    ELSE "Failed to detect dimension for model"

\* The n texts 1..n.
TextsOf(n) == [i \in 1..n |-> i]

EmbedInit ==
    /\ IndexerIdle /\ LockIdle /\ SearchIdle /\ ToolsIdle
    /\ ecfg \in EmbedConfigs
    /\ dimension = updateModelSettings(ecfg)
    /\ op = "-" /\ epc = "idle"
    /\ texts = <<>> /\ batches = <<>> /\ results = <<>>
    /\ ret = 0 /\ calls = <<>> /\ fault = FALSE /\ failure = <<>>
    /\ okProbes = 0 /\ opsDone = 0

\* What a new operation starts from.
StartOp(o, txts, bs, at) ==
    /\ epc = "idle"
    /\ opsDone < MaxOps
    /\ op' = o
    /\ texts' = txts
    /\ batches' = bs
    /\ epc' = at
    /\ results' = <<>> /\ ret' = 0 /\ calls' = <<>> /\ fault' = FALSE /\ failure' = <<>>
    /\ UNCHANGED <<ecfg, dimension, okProbes, opsDone, outsideEmbed>>

\* embed(text)
StartEmbed == StartOp("embed", TextsOf(1), <<TextsOf(1)>>, "dim")

\* embedBatch(texts)
StartEmbedBatch(n) ==
    StartOp("embedBatch", TextsOf(n), Batches(TextsOf(n), maxBatchSize(ecfg, TextsOf(n))),
            "dim")

\* detectDimension(): answered at once from config.dimensions or the table, else
\* by a call to the provider.
StartDetectDimension ==
    /\ epc = "idle"
    /\ opsDone < MaxOps
    /\ op' = "detectDimension"
    /\ texts' = <<>> /\ batches' = <<>> /\ results' = <<>>
    /\ calls' = <<>> /\ fault' = FALSE /\ failure' = <<>>
    /\ IF detectDimensionAtOnce(ecfg) # <<>>
       THEN ret' = detectDimensionAtOnce(ecfg)[1] /\ epc' = "done"
       ELSE ret' = 0 /\ epc' = "probe"
    /\ UNCHANGED <<ecfg, dimension, okProbes, opsDone, outsideEmbed>>

\* embed and embedBatch, before each request: this.dimension is set to the
\* table's for a known model, to detectDimension() for another.
ResolveDimension ==
    /\ epc = "dim"
    /\ IF IsKnownModel(ecfg.model)
       THEN dimension' = ModelDimension[ecfg.model] /\ epc' = "request"
       ELSE IF detectDimensionAtOnce(ecfg) # <<>>
            THEN dimension' = detectDimensionAtOnce(ecfg)[1] /\ epc' = "request"
            ELSE dimension' = dimension /\ epc' = "probe"
    /\ UNCHANGED <<ecfg, op, texts, batches, results, ret, calls, fault, failure,
                   okProbes, opsDone, outsideEmbed>>

\* detectDimension asks the provider for the embedding of "test" and returns
\* the length of the vector; an error is thrown on.
Probe(out) ==
    /\ epc = "probe"
    /\ calls' = Append(calls, EmbedRequest(ecfg, <<"test">>))
    /\ IF out = "ok"
       THEN /\ okProbes' = okProbes + 1
            /\ fault' = fault /\ failure' = failure
            /\ IF op = "detectDimension"
               THEN /\ ret' = ProviderVector(EmbedRequest(ecfg, <<"test">>), "test").length
                    /\ dimension' = dimension
                    /\ epc' = "done"
               ELSE /\ ret' = ret
                    /\ dimension' =
                           ProviderVector(EmbedRequest(ecfg, <<"test">>), "test").length
                    /\ epc' = "request"
       ELSE /\ fault' = TRUE
            /\ failure' = <<EmbedError(ErrorPrefix("detectDimension"), out)>>
            /\ epc' = "failed"
            /\ UNCHANGED <<okProbes, ret, dimension>>
    /\ UNCHANGED <<ecfg, op, texts, batches, results, opsDone, outsideEmbed>>

\* The request of the batch in hand.  An answer with data sets this.dimension to
\* the length of the first vector and maps the items to results; an answer
\* without items (the input was empty) makes response.data[0] undefined and the
\* read of its field a TypeError; every error is caught and thrown on.
SendRequest(out) ==
    /\ epc = "request"
    /\ LET request == EmbedRequest(ecfg, Head(batches))
           data == ProviderData(request)
       IN /\ calls' = Append(calls, request)
          /\ IF out = "ok" /\ data # <<>>
             THEN /\ dimension' = data[1].length
                  /\ results' = results \o
                        [i \in 1..Len(data) |->
                            [vector |-> data[i], dimension |-> data[1].length]]
                  /\ batches' = Tail(batches)
                  /\ epc' = IF Tail(batches) = <<>> THEN "done" ELSE "dim"
                  /\ UNCHANGED <<fault, failure>>
             ELSE /\ fault' = (fault \/ out # "ok")
                  /\ failure' = <<EmbedError(ErrorPrefix(op),
                                             IF out = "ok" THEN "TypeError" ELSE out)>>
                  /\ epc' = "failed"
                  /\ UNCHANGED <<dimension, results, batches>>
    /\ UNCHANGED <<ecfg, op, texts, ret, okProbes, opsDone, outsideEmbed>>

\* The operation has returned or thrown.
FinishOp ==
    /\ epc \in {"done", "failed"}
    /\ epc' = "idle"
    /\ op' = "-"
    /\ texts' = <<>> /\ batches' = <<>> /\ results' = <<>>
    /\ ret' = 0 /\ calls' = <<>> /\ fault' = FALSE /\ failure' = <<>>
    /\ opsDone' = opsDone + 1
    /\ UNCHANGED <<ecfg, dimension, okProbes, outsideEmbed>>

EmbedNext ==
    \/ StartEmbed
    \/ \E n \in 0..MaxTexts : StartEmbedBatch(n)
    \/ StartDetectDimension
    \/ ResolveDimension
    \/ \E out \in Outcomes : Probe(out)
    \/ \E out \in Outcomes : SendRequest(out)
    \/ FinishOp

EmbedSpec == EmbedInit /\ [][EmbedNext]_<<vars, otherVars>>

(***************************************************************************)
(* Hybrid search (spec.md 4.8): dense and sparse sub-requests fused by       *)
(* reciprocal rank fusion.                                                  *)
(***************************************************************************)
\* The largest limit of a query.
MaxLimit == 3

\* The documents of the collection, by id.
Docs == 1..3

\* rerank: { strategy: 'rrf', params: { k: 100 } }
RRF_K == 100

\* The ranked list a sub-request of the given limit can return.
Rankings(limit) ==
    {r \in UNION {[1..n -> Docs] : n \in 0..limit} :
        \A i, j \in DOMAIN r : i # j => r[i] # r[j]}

\* The filters of a query, by the documents that pass.
Filters == {Docs, Docs \ {2}}

Queries ==
    UNION {[limit : {n}, dense : Rankings(n), sparse : Rankings(n), passing : Filters] :
              n \in 1..MaxLimit}

\* The 1-based rank of d in a ranked list, 0 if it is not in it.
RankOf(r, d) == IF \E i \in DOMAIN r : r[i] = d THEN CHOOSE i \in DOMAIN r : r[i] = d ELSE 0

\* Scores are kept as exact integers: multiples of 1 / RRFScale.
RECURSIVE RankProduct(_)
RankProduct(n) == IF n = 0 THEN 1 ELSE (RRF_K + n) * RankProduct(n - 1)

RRFScale == RankProduct(MaxLimit)

\* 1 / (k + rank) for a document of the list, nothing for one that is not in it.
RRFTerm(rank) == IF rank = 0 THEN 0 ELSE RRFScale \div (RRF_K + rank)

FusedScore(q, d) == RRFTerm(RankOf(q.dense, d)) + RRFTerm(RankOf(q.sparse, d))

\* The documents of either list that pass the filter.
Candidates(q) ==
    {d \in q.passing : RankOf(q.dense, d) # 0 \/ RankOf(q.sparse, d) # 0}

\* An order that breaks ties by descending id.
RanksBefore_IdDescending(q, a, b) ==
    \/ FusedScore(q, a) > FusedScore(q, b)
    \/ FusedScore(q, a) = FusedScore(q, b) /\ a > b

\* Fused score descending, ties by ascending id.
RanksBefore(q, a, b) ==
    \/ FusedScore(q, a) > FusedScore(q, b)
    \/ FusedScore(q, a) = FusedScore(q, b) /\ a < b

RECURSIVE SortHits(_, _)
SortHits(q, S) ==
    IF S = {}
    THEN <<>>
    ELSE LET first == CHOOSE a \in S : \A b \in S \ {a} : RanksBefore(q, a, b)
         IN <<[document |-> first, score |-> FusedScore(q, first)]>>
                \o SortHits(q, S \ {first})

\* The first n elements of a sequence.
TopOf(sq, n) == SubSeq(sq, 1, IF Len(sq) < n THEN Len(sq) ELSE n)

hybridSearch(q) == TopOf(SortHits(q, Candidates(q)), q.limit)

SearchInit ==
    /\ IndexerIdle /\ LockIdle /\ EmbedIdle /\ ToolsIdle
    /\ query \in Queries
    /\ hits = <<>>
    /\ searched = FALSE

\* The query is answered.
AnswerQuery ==
    /\ ~searched
    /\ hits' = hybridSearch(query)
    /\ searched' = TRUE
    /\ UNCHANGED <<query, outsideSearch>>

\* The next query.
NextQuery(q) ==
    /\ searched
    /\ query' = q
    /\ hits' = <<>>
    /\ searched' = FALSE
    /\ UNCHANGED outsideSearch

SearchNext ==
    \/ AnswerQuery
    \/ \E q \in Queries : NextQuery(q)

SearchSpec == SearchInit /\ [][SearchNext]_<<vars, otherVars>>

(***************************************************************************)
(* Collection naming: ProjectMetadataManager.generateCollectionName applied *)
(* to a project path, a search mode and an optional git identifier.        *)
(***************************************************************************)
\* The longest git identifier of the model.
MaxIdLen == 34

PathSegments == {"proj", ".", "..", ""}

ProjectPaths ==
    {[absolute |-> a, segments |-> s] :
        a \in BOOLEAN,
        s \in {<<>>} \cup {<<x>> : x \in PathSegments}
                     \cup {<<x, y>> : x \in PathSegments, y \in PathSegments}}

\* The string of n characters that repeats pattern.
Repeat(pattern, n) == [i \in 1..n |-> pattern[((i - 1) % Len(pattern)) + 1]]

IdChars == {"G", "g", "/", "4"}

\* The identifiers: every string of at most two characters, and strings around
\* the length limit of the identifier part.
GitIdentifiers ==
    {<<>>} \cup {<<x>> : x \in IdChars} \cup {<<x, y>> : x \in IdChars, y \in IdChars}
    \cup {Repeat(pat, n) : pat \in {<<"g", "i", "t", "@", "G", "R", ":", "4">>,
                                     <<"R", ".", "r", "-", "_", "/">>},
                           n \in (SlugLength - 1)..MaxIdLen}

IdentifierArguments == {NoIdentifier} \cup {<<g>> : g \in GitIdentifiers}

\* All components idle.
CoreIdle == IndexerIdle /\ LockIdle /\ EmbedIdle /\ SearchIdle

NameInit ==
    /\ CoreIdle /\ StopIdle /\ SnapshotIdle /\ ManagerIdle /\ PromptIdle /\ OneShotIdle /\ ConfirmIdle /\ LogIdle
    /\ namePath \in ProjectPaths
    /\ nameHybrid \in BOOLEAN
    /\ nameGit \in IdentifierArguments
    /\ generated = <<>>

\* The call returns.
GenerateName ==
    /\ generated = <<>>
    /\ generated' = <<generateCollectionName(namePath, nameHybrid, nameGit)>>
    /\ UNCHANGED <<namePath, nameHybrid, nameGit>>
    /\ UNCHANGED outsideName

\* The next call for the same project, with its mode and identifier.
NextName(h, g) ==
    /\ generated # <<>>
    /\ nameHybrid' = h
    /\ nameGit' = g
    /\ generated' = <<>>
    /\ UNCHANGED namePath
    /\ UNCHANGED outsideName

NameNext ==
    \/ GenerateName
    \/ \E h \in BOOLEAN, g \in IdentifierArguments : NextName(h, g)

NameSpec == NameInit /\ [][NameNext]_<<vars, otherVars>>

(***************************************************************************)
(* The result limit of the query tools: `limit <n>` of the interactive     *)
(* tool (manual-query-interactive.js) and --limit of the one-shot tool     *)
(* (manual-query.js).                                                      *)
(***************************************************************************)
\* The longest argument of the model.
MaxArgLen == 3

DigitValue == [c \in Digits |-> IF c = "0" THEN 0 ELSE IF c = "1" THEN 1
                                ELSE IF c = "4" THEN 4 ELSE 5]

ArgChars == {"0", "1", "5", "-", "t"}

RECURSIVE StringsUpTo(_)
StringsUpTo(n) ==
    IF n = 0 THEN {<<>>}
    ELSE LET shorter == StringsUpTo(n - 1)
         IN shorter \cup {Append(s, c) : s \in shorter, c \in ArgChars}

\* The arguments a user can type.
Arguments == StringsUpTo(MaxArgLen)

\* The number of decimal digits s begins with.
RECURSIVE LeadingDigits(_)
LeadingDigits(s) ==
    IF s = <<>> \/ Head(s) \notin Digits THEN 0 ELSE 1 + LeadingDigits(Tail(s))

\* The value of a string of decimal digits.
RECURSIVE DecimalValue(_)
DecimalValue(s) ==
    IF s = <<>> THEN 0
    ELSE 10 * DecimalValue(SubSeq(s, 1, Len(s) - 1)) + DigitValue[s[Len(s)]]

NaN == <<>>

\* parseInt(s) without a radix, on strings without white space and without a
\* hexadecimal prefix: an optional sign, then the longest run of decimal
\* digits; NaN when there is no digit.  The result is <<n>> or NaN.
parseInt(s) ==
    LET signed == s # <<>> /\ Head(s) \in {"-", "+"}
        rest == IF signed THEN Tail(s) ELSE s
        n == LeadingDigits(rest)
        magnitude == DecimalValue(SubSeq(rest, 1, n))
    IN IF n = 0 THEN NaN
       ELSE <<IF signed /\ Head(s) = "-" THEN 0 - magnitude ELSE magnitude>>

isNaN(num) == num = NaN

\* The largest limit the tools document.
LimitMax == 100

\* handleLimit(limit): the settings after the command.
handleLimit(current, limit) ==
    LET num == parseInt(limit)
    IN IF isNaN(num) \/ num[1] <= 0 \/ num[1] > LimitMax
       THEN current
       ELSE [limit |-> num[1]]

PromptInit == CoreIdle /\ StopIdle /\ SnapshotIdle /\ ManagerIdle /\ NameIdle /\ OneShotIdle /\ ConfirmIdle /\ LogIdle /\ PromptIdle

\* The user enters `limit <arg>`.
LimitCommand(arg) ==
    /\ settings' = handleLimit(settings, arg)
    /\ limitArg' = <<arg>>
    /\ limitBefore' = settings.limit
    /\ UNCHANGED outsidePrompt

\* The user enters `limit`: the current limit is shown.
ShowLimit ==
    /\ limitArg' = <<>>
    /\ limitBefore' = settings.limit
    /\ UNCHANGED settings
    /\ UNCHANGED outsidePrompt

PromptNext ==
    \/ \E arg \in Arguments : LimitCommand(arg)
    \/ ShowLimit

PromptSpec == PromptInit /\ [][PromptNext]_<<vars, otherVars>>

\* The operations of the one-shot tool.
Operations == {"list_collections", "collection_info", "query", "hybrid_search"}

\* The value after --limit: none (no --limit, or --limit as the last word) or
\* a string.
LimitValues == {<<>>} \cup {<<a>> : a \in Arguments}

\* parseInt(value) || 10: NaN and 0 are falsy.
limitOption(value) ==
    LET num == IF value = <<>> THEN NaN ELSE parseInt(value[1])
    IN IF isNaN(num) \/ num[1] = 0 THEN 10 ELSE num[1]

OneShotInit == CoreIdle /\ StopIdle /\ SnapshotIdle /\ ManagerIdle /\ NameIdle /\ PromptIdle /\ ConfirmIdle /\ LogIdle /\ OneShotIdle

\* parseArgs: --operation <operation>, with --limit <value> or without.
parseArgs(operation, withLimit, value) ==
    /\ ~parsed
    /\ options' = [operation |-> operation,
                   limit |-> IF withLimit THEN limitOption(value) ELSE 10]
    /\ parsed' = TRUE
    /\ UNCHANGED passedLimit
    /\ UNCHANGED outsideOneShot

\* main: query and hybrid_search pass options.limit to the vector database.
RunOperation ==
    /\ parsed
    /\ passedLimit = <<>>
    /\ options.operation \in {"query", "hybrid_search"}
    /\ passedLimit' = <<options.limit>>
    /\ UNCHANGED <<options, parsed>>
    /\ UNCHANGED outsideOneShot

OneShotNext ==
    \/ \E o \in Operations, w \in BOOLEAN, v \in LimitValues : parseArgs(o, w, v)
    \/ RunOperation

OneShotSpec == OneShotInit /\ [][OneShotNext]_<<vars, otherVars>>

(***************************************************************************)
(* The destructive commands of the interactive query tool                  *)
(* (manual-query-interactive.js): drop, clearindex and reindex ask for a   *)
(* confirmation before they act.                                           *)
(***************************************************************************)
\* The commands of one session.
MaxCommands == 3

\* The collection of the project the commands name; drop names it directly.
ProjectCollection == generateCollectionName(ProjectPath, TRUE, NoIdentifier)

\* What the user can answer to a confirmation.
Answers ==
    {<<"y", "e", "s">>, <<"Y", "E", "S">>, <<"Y", "e", "s">>, <<"y">>, <<"n", "o">>,
     <<>>, <<"y", "e", "s", "s">>, <<"y", "e">>}

\* A confirmation that takes every answer but "no".
IsConfirmed_UnlessNo(answer) == answer # <<"n", "o">>

\* answer.toLowerCase() === 'yes'.
IsConfirmed(answer) == toLowerCase(answer) = <<"y", "e", "s">>

ConfirmInit ==
    /\ CoreIdle /\ StopIdle /\ SnapshotIdle /\ ManagerIdle /\ NameIdle /\ PromptIdle /\ OneShotIdle /\ LogIdle
    /\ interactive \in BOOLEAN
    /\ question = <<>>
    /\ dbCollections \in {{}, {ProjectCollection}}
    /\ apiLog = <<>>
    /\ commandsRun = 0

\* A session takes commands one after the other; with arguments on the command
\* line the tool runs one command and exits.
CanEnter ==
    /\ question = <<>>
    /\ commandsRun < (IF interactive THEN MaxCommands ELSE 1)

\* handleDrop / handleClearIndex / handleReindex up to the confirmation: the
\* usage and path checks return early (valid = FALSE), drop and clearindex
\* return when the collection does not exist; otherwise the question is asked.
\* Without a session there is no readline interface and asking throws.
EnterCommand(command, valid) ==
    /\ CanEnter
    /\ commandsRun' = commandsRun + 1
    /\ LET exists == ProjectCollection \in dbCollections
       IN question' =
              IF valid /\ interactive /\ (command = "reindex" \/ exists)
              THEN <<[command |-> command, exists |-> exists]>>
              ELSE <<>>
    /\ UNCHANGED <<interactive, dbCollections, apiLog>>
    /\ UNCHANGED outsideConfirm

Call(name, answer) == [call |-> name, answer |-> answer]

\* The callback of rl.question for drop.  The call can fail; the error is
\* caught and reported.
AnswerDrop(answer, ok) ==
    /\ question # <<>>
    /\ question[1].command = "drop"
    /\ question' = <<>>
    /\ IF IsConfirmed(answer)
       THEN /\ apiLog' = Append(apiLog, Call("dropCollection", answer))
            /\ dbCollections' = IF ok THEN dbCollections \ {ProjectCollection}
                                ELSE dbCollections
       ELSE UNCHANGED <<apiLog, dbCollections>>
    /\ UNCHANGED <<interactive, commandsRun>>
    /\ UNCHANGED outsideConfirm

\* The callback of rl.question for clearindex.
AnswerClearIndex(answer, ok) ==
    /\ question # <<>>
    /\ question[1].command = "clearindex"
    /\ question' = <<>>
    /\ IF IsConfirmed(answer)
       THEN /\ apiLog' = Append(apiLog, Call("clearIndex", answer))
            /\ dbCollections' = IF ok THEN dbCollections \ {ProjectCollection}
                                ELSE dbCollections
       ELSE UNCHANGED <<apiLog, dbCollections>>
    /\ UNCHANGED <<interactive, commandsRun>>
    /\ UNCHANGED outsideConfirm

\* The callback of rl.question for reindex: clearIndex when the collection
\* existed, then indexCodebase; an error of the first skips the second.
AnswerReindex(answer, okClear, okIndex) ==
    /\ question # <<>>
    /\ question[1].command = "reindex"
    /\ question' = <<>>
    /\ IF IsConfirmed(answer)
       THEN LET cleared == IF question[1].exists
                           THEN <<Call("clearIndex", answer)>> ELSE <<>>
                indexed == IF question[1].exists /\ ~okClear
                           THEN <<>> ELSE <<Call("indexCodebase", answer)>>
            IN /\ apiLog' = apiLog \o cleared \o indexed
               /\ dbCollections' =
                      IF indexed # <<>> /\ okIndex
                      THEN dbCollections \cup {ProjectCollection}
                      ELSE IF cleared # <<>> /\ okClear
                      THEN dbCollections \ {ProjectCollection}
                      ELSE dbCollections
       ELSE UNCHANGED <<apiLog, dbCollections>>
    /\ UNCHANGED <<interactive, commandsRun>>
    /\ UNCHANGED outsideConfirm

ConfirmNext ==
    \/ \E c \in {"drop", "clearindex", "reindex"}, v \in BOOLEAN : EnterCommand(c, v)
    \/ \E a \in Answers, ok \in BOOLEAN : AnswerDrop(a, ok)
    \/ \E a \in Answers, ok \in BOOLEAN : AnswerClearIndex(a, ok)
    \/ \E a \in Answers, ok1 \in BOOLEAN, ok2 \in BOOLEAN : AnswerReindex(a, ok1, ok2)

ConfirmSpec == ConfirmInit /\ [][ConfirmNext]_<<vars, otherVars>>

(***************************************************************************)
(* Log retention: IndexLogger.cleanOldLogs, and cleanOldLogs of            *)
(* scripts/view-logs.js, which filters and deletes in the same way.        *)
(***************************************************************************)
\* The days that pass in the model.
MaxDays == 2

MsPerDay == 24 * 60 * 60 * 1000

\* 7 * 24 * 60 * 60 * 1000.
RetentionMs == 7 * MsPerDay

\* The time the model starts at.
StartTime == 10 * MsPerDay

\* s.startsWith(prefix).
startsWith(s, prefix) ==
    Len(s) >= Len(prefix) /\ SubSeq(s, 1, Len(prefix)) = prefix

\* s.endsWith(suffix).
endsWith(s, suffix) ==
    Len(s) >= Len(suffix) /\ SubSeq(s, Len(s) - Len(suffix) + 1, Len(s)) = suffix

IndexPrefix == <<"i", "n", "d", "e", "x", "-">>

LogSuffix == <<".", "l", "o", "g">>

\* The files of the log directory when the cleaning is looked at: index-a.log,
\* index-b.log, index-.log, index-a.txt, a.log and xindex-a.log.
DirNames ==
    {IndexPrefix \o <<"a">> \o LogSuffix,
     IndexPrefix \o <<"b">> \o LogSuffix,
     IndexPrefix \o LogSuffix,
     IndexPrefix \o <<"a", ".", "t", "x", "t">>,
     <<"a">> \o LogSuffix,
     <<"x">> \o IndexPrefix \o <<"a">> \o LogSuffix}

\* Their modification times: just over 7 days before the start, exactly 7 days
\* before the start, just before the start.
Mtimes == {StartTime - RetentionMs - 1, StartTime - RetentionMs, StartTime - 1}

\* A cleaning that deletes the files of exactly the cutoff age as well.
cleanOldLogs_AtCutoff(dir, time) ==
    LET cutoffTime == time - RetentionMs
        files == {file \in DOMAIN dir :
                     startsWith(file, IndexPrefix) /\ endsWith(file, LogSuffix)}
        old == {file \in files : dir[file].mtime <= cutoffTime}
    IN [file \in DOMAIN dir \ old |-> dir[file]]

\* cleanOldLogs: the directory after the files named index-*.log with
\* mtime < cutoffTime have been unlinked.
cleanOldLogs(dir, time) ==
    LET cutoffTime == time - RetentionMs
        files == {file \in DOMAIN dir :
                     startsWith(file, IndexPrefix) /\ endsWith(file, LogSuffix)}
        old == {file \in files : dir[file].mtime < cutoffTime}
    IN [file \in DOMAIN dir \ old |-> dir[file]]

CleanInit ==
    /\ CoreIdle /\ StopIdle /\ SnapshotIdle /\ ManagerIdle /\ NameIdle /\ PromptIdle /\ OneShotIdle /\ ConfirmIdle
    /\ logDir \in {[n \in S |-> [mtime |-> m[n], writers |-> {}, projects |-> {}]] :
                       S \in SUBSET DirNames, m \in [DirNames -> Mtimes]}
    /\ dateNow = StartTime
    /\ dirBefore = <<>>
    /\ loggers = [l \in LoggerIds |-> <<>>]
    /\ lookup = <<>>

\* `npm run logs:clean`, or a call of IndexLogger.cleanOldLogs.
CleanOldLogs ==
    /\ dirBefore = <<>>
    /\ logDir' = cleanOldLogs(logDir, dateNow)
    /\ dirBefore' = <<logDir>>
    /\ UNCHANGED <<dateNow, loggers, lookup>>
    /\ UNCHANGED outsideLog

\* A day passes.
AdvanceDay ==
    /\ dateNow < StartTime + MaxDays * MsPerDay
    /\ dateNow' = dateNow + MsPerDay
    /\ dirBefore' = <<>>
    /\ UNCHANGED <<logDir, loggers, lookup>>
    /\ UNCHANGED outsideLog

CleanNext == CleanOldLogs \/ AdvanceDay

CleanSpec == CleanInit /\ [][CleanNext]_<<vars, otherVars>>

(***************************************************************************)
(* A SimpleHashCacheManager in use: updateFile, save, clear, and the       *)
(* construction of a new manager over the same file.                       *)
(***************************************************************************)
ManagerInit ==
    /\ CoreIdle /\ StopIdle /\ SnapshotIdle /\ NameIdle /\ PromptIdle /\ OneShotIdle /\ ConfirmIdle /\ LogIdle
    /\ ManagerIdle

\* The paths updateFile was called with since clear().
NoteUpdate(f) ==
    IF sinceClear = <<>> THEN sinceClear
    ELSE <<[sinceClear[1] EXCEPT !.updated = @ \cup {f}]>>

\* updateFile(relativePath, hash, chunkCount) for a file of content c.
ManagerUpdateFile(f, c) ==
    /\ mgrCache' = updateFile(mgrCache, f, calculateHash(c), Chunker(c))
    /\ sinceClear' = NoteUpdate(f)
    /\ UNCHANGED mgrFile
    /\ UNCHANGED outsideManager

\* save(): writeFileSync writes the document, or throws after it has truncated
\* the file, or throws before it has opened it; the error is caught.
ManagerSave(outcome) ==
    /\ mgrFile' = CASE outcome = "written" -> CompleteFile(mgrCache)
                    [] outcome = "truncated" -> TruncatedFile
                    [] outcome = "unopened" -> mgrFile
    /\ sinceClear' = IF sinceClear = <<>> \/ outcome # "written" THEN sinceClear
                     ELSE <<[sinceClear[1] EXCEPT !.saved = TRUE]>>
    /\ UNCHANGED mgrCache
    /\ UNCHANGED outsideManager

\* clear(): unlinkSync removes the file, or throws and is caught.
ManagerClear(ok) ==
    /\ mgrFile' = IF ok THEN clearCacheFile(mgrFile) ELSE mgrFile
    /\ sinceClear' = <<[updated |-> {}, saved |-> FALSE]>>
    /\ UNCHANGED mgrCache
    /\ UNCHANGED outsideManager

\* new SimpleHashCacheManager(projectPath, collectionName) over the same file.
ManagerConstruct ==
    /\ mgrCache' = loadCache(mgrFile, ProjectPath,
                            generateCollectionName(ProjectPath, FALSE, NoIdentifier))
    /\ sinceClear' = <<>>
    /\ UNCHANGED mgrFile
    /\ UNCHANGED outsideManager

ManagerNext ==
    \/ \E f \in Files, c \in Contents : ManagerUpdateFile(f, c)
    \/ \E o \in {"written", "truncated", "unopened"} : ManagerSave(o)
    \/ \E ok \in BOOLEAN : ManagerClear(ok)
    \/ ManagerConstruct

ManagerSpec == ManagerInit /\ [][ManagerNext]_<<vars, otherVars>>

(***************************************************************************)
(* sync-index: main and performSyncIndexing with readSnapshot,             *)
(* writeSnapshot and cleanProjectIndex.  A snapshot document has a         *)
(* codebases field or none; the field is an array of records (v1) or an    *)
(* object keyed by project path (v2).  A JavaScript array can carry named  *)
(* properties beside its items.                                            *)
(***************************************************************************)
\* The sync-index runs of the model.
MaxSyncRuns == 2

MalformedFile == [state |-> "malformed", content |-> <<>>]

\* The project paths that occur in snapshots: the project indexed and another.
OtherProject == <<"other">>

SnapshotPaths == {pathResolve(ProjectPath), OtherProject}

\* path.normalize of an absolute path, as its segments.
pathNormalize(segments) == normalizeSegments(<<>>, segments)

EntryStatuses == {"indexed", "partial", "failed"}

NoProps == [k \in SnapshotPaths |-> <<>>]

\* The values of the codebases field.
ObjectValue(props) == [kind |-> "object", items |-> <<>>, props |-> props]

ArrayValue(items, props) == [kind |-> "array", items |-> items, props |-> props]

\* The documents a snapshot file can hold before a run: v2 with an entry or
\* none per path, v1 with an item or none per path, and a document without a
\* codebases field.
V2Documents ==
    {[codebases |-> <<ObjectValue(props)>>] :
        props \in [SnapshotPaths -> {<<>>} \cup {<<[status |-> st]>> : st \in EntryStatuses}]}

V1Documents ==
    {[codebases |-> <<ArrayValue(items, NoProps)>>] :
        items \in {<<>>}
            \cup {<<[path |-> k, status |-> st]>> : k \in SnapshotPaths, st \in EntryStatuses}
            \cup {<<[path |-> OtherProject, status |-> st1],
                    [path |-> pathResolve(ProjectPath), status |-> st2]>> :
                      st1 \in EntryStatuses, st2 \in EntryStatuses}}

SnapshotDocuments == V2Documents \cup V1Documents \cup {[codebases |-> <<>>]}

\* JSON.parse(JSON.stringify(snapshot)): the named properties of an array are
\* not serialised.
serialize(snapshot) ==
    IF snapshot.codebases # <<>> /\ snapshot.codebases[1].kind = "array"
    THEN [codebases |-> <<ArrayValue(snapshot.codebases[1].items, NoProps)>>]
    ELSE snapshot

\* readSnapshot: { codebases: {} } when the file is absent or cannot be parsed.
readSnapshot(disk) ==
    IF disk.state = "complete" THEN disk.content[1]
    ELSE [codebases |-> <<ObjectValue(NoProps)>>]

\* writeSnapshot: the file after writeFileSync(JSON.stringify(snapshot)).
writeSnapshot(disk, snapshot) == CompleteFile(serialize(snapshot))

\* snapshot.codebases[normalizedPath].
codebaseOf(snapshot, normalizedPath) ==
    IF snapshot.codebases = <<>> THEN <<>>
    ELSE snapshot.codebases[1].props[normalizedPath]

\* if (!snapshot.codebases) snapshot.codebases = {};
\* snapshot.codebases[normalizedPath] = entry.
setCodebase(snapshot, normalizedPath, entry) ==
    LET value == IF snapshot.codebases = <<>> THEN ObjectValue(NoProps)
                 ELSE snapshot.codebases[1]
    IN [codebases |-> <<[value EXCEPT !.props[normalizedPath] = <<entry>>]>>]

\* How context.indexCodebase ends: stats.status, or an exception.
IndexingEnds == {"completed", "limit_reached", "threw"}

\* performSyncIndexing: the snapshot file after the run.
performSyncIndexing(disk, projectPath, ending) ==
    LET snapshot == readSnapshot(disk)
        normalizedPath == pathNormalize(projectPath)
        entry == IF ending = "threw" THEN [status |-> "failed"]
                 ELSE [status |-> IF ending = "completed" THEN "indexed" ELSE "partial"]
    IN writeSnapshot(disk, setCodebase(snapshot, normalizedPath, entry))

SnapshotInit ==
    /\ CoreIdle /\ StopIdle /\ NameIdle /\ PromptIdle /\ OneShotIdle /\ ConfirmIdle /\ LogIdle /\ ManagerIdle
    /\ snapshotFile \in {NoFileOnDisk, MalformedFile}
                          \cup {CompleteFile(d) : d \in SnapshotDocuments}
    /\ syncRun = <<>>

RunsSoFar == IF syncRun = <<>> THEN 0 ELSE syncRun[1].runs

\* main without --force and --clean for a project that has an entry: the tool
\* reports it and exits.
SyncIndexSkips ==
    /\ RunsSoFar < MaxSyncRuns
    /\ codebaseOf(readSnapshot(snapshotFile), pathNormalize(pathResolve(ProjectPath))) # <<>>
    /\ syncRun' = <<[ending |-> "skipped", runs |-> RunsSoFar + 1]>>
    /\ UNCHANGED snapshotFile
    /\ UNCHANGED outsideSnapshot

\* main: cleanProjectIndex works on main's copy of the snapshot, which is not
\* written; performSyncIndexing reads the file again.
SyncIndex(force, ending) ==
    /\ RunsSoFar < MaxSyncRuns
    /\ force
       \/ codebaseOf(readSnapshot(snapshotFile),
                     pathNormalize(pathResolve(ProjectPath))) = <<>>
    /\ snapshotFile' = performSyncIndexing(snapshotFile, pathResolve(ProjectPath), ending)
    /\ syncRun' = <<[ending |-> ending, runs |-> RunsSoFar + 1]>>
    /\ UNCHANGED outsideSnapshot

SnapshotNext ==
    \/ SyncIndexSkips
    \/ \E force \in BOOLEAN, e \in IndexingEnds : SyncIndex(force, e)

SnapshotSpec == SnapshotInit /\ [][SnapshotNext]_<<vars, otherVars>>

(***************************************************************************)
(* stop-indexing <project-name>: findIndexingProcesses, stopSpecificProject *)
(* and killProcess.                                                        *)
(***************************************************************************)
\* The processes running on the machine.
MaxProcesses == 3

\* The names of the projects: git, Git, gitter and se.
ProjectNames ==
    {<<"g", "i", "t">>, <<"G", "i", "t">>, <<"g", "i", "t", "t", "e", "r">>, <<"s", "e">>}

\* The processes: the indexing of a project (node index-project.js <path>), an
\* MCP server (claude-context-mcp), another use of a file named
\* index-project.js (an editor, no argument after the name), and a process
\* that has nothing to do with indexing.
Commands ==
    {[program |-> "index-project.js", argument |-> <<<<"home", n>>>>] : n \in ProjectNames}
    \cup {[program |-> "claude-context-mcp", argument |-> <<>>],
          [program |-> "index-project.js", argument |-> <<>>],
          [program |-> "other", argument |-> <<>>]}

\* path.basename of a path given as its segments.
basename(p) == p[Len(p)]

\* s.includes(sub).
includes(s, sub) ==
    \E i \in 0..(Len(s) - Len(sub)) : SubSeq(s, i + 1, i + Len(sub)) = sub

\* The name findIndexingProcesses gives the process of a command:
\* the basename of the argument after index-project.js, 'mcp-server' for a
\* command with claude-context-mcp, 'unknown' otherwise.
projectNameOf(command) ==
    IF command.program = "index-project.js" /\ command.argument # <<>>
    THEN basename(command.argument[1])
    ELSE IF command.program = "claude-context-mcp"
    THEN <<"m", "c", "p", "-", "s", "e", "r", "v", "e", "r">>
    ELSE <<"u", "n", "k", "n", "o", "w", "n">>

\* findIndexingProcesses: the processes whose command line matches
\* (claude-context-mcp|index-project\.js), each with its pid and name.
findIndexingProcesses(table) ==
    {[pid |-> pid, projectName |-> projectNameOf(table[pid])] :
        pid \in {q \in DOMAIN table :
                    table[q].program \in {"claude-context-mcp", "index-project.js"}}}

\* stopSpecificProject: the processes whose name, in lower case, includes the
\* given name in lower case.
matchingProcesses(table, projectName) ==
    {proc \in findIndexingProcesses(table) :
        includes(toLowerCase(proc.projectName), toLowerCase(projectName))}

\* killProcess for each process selected: SIGTERM, and SIGKILL when that fails
\* (for the pids in termFails).
killSignals(selected, termFails) ==
    {[pid |-> proc.pid, signal |-> "TERM"] : proc \in selected}
    \cup {[pid |-> proc.pid, signal |-> "KILL"] :
             proc \in {x \in selected : x.pid \in termFails}}

StopInit ==
    /\ CoreIdle /\ NameIdle /\ PromptIdle /\ OneShotIdle /\ ConfirmIdle /\ LogIdle /\ ManagerIdle /\ SnapshotIdle
    /\ processes \in [1..MaxProcesses -> Commands]
    /\ stopped = <<>>
    /\ signals = {}

\* node scripts/stop-indexing.js <projectName>.
StopSpecificProject(projectName, termFails) ==
    /\ stopped = <<>>
    /\ stopped' = <<projectName>>
    /\ signals' = killSignals(matchingProcesses(processes, projectName), termFails)
    /\ UNCHANGED processes
    /\ UNCHANGED outsideStop

StopNext ==
    \E n \in ProjectNames, F \in SUBSET (1..MaxProcesses) : StopSpecificProject(n, F)

StopSpec == StopInit /\ [][StopNext]_<<vars, otherVars>>

(***************************************************************************)
(* IndexLogger: the constructor, log / writeLog and getLatestLogFile.      *)
(***************************************************************************)
\* The clock of the loggers advances by half seconds, this many times.
MaxHalfSeconds == 3

HalfSecondMs == 500

\* The projects that are indexed: /home/git, /work/git and /home/git-r.
LoggerProjects ==
    {<<"home", <<"g", "i", "t">>>>, <<"work", <<"g", "i", "t">>>>,
     <<"home", <<"g", "i", "t", "-", "r">>>>}

DigitChar == <<"0", "1", "2", "3", "4", "5", "6", "7", "8", "9">>

\* new Date().toISOString().replace(/[:]/g, '-').split('.')[0] at time ms
\* within the first ten seconds of the model's minute: the milliseconds are
\* cut off.
isoTimestamp(ms) ==
    <<"2", "0", "2", "6", "-", "1", "1", "-", "0", "2", "T",
      "0", "0", "-", "0", "0", "-", "0", DigitChar[((ms \div 1000) % 10) + 1]>>

\* `index-${this.projectName}-${timestamp}.log`.
logFileName(projectName, ms) ==
    IndexPrefix \o projectName \o <<"-">> \o isoTimestamp(ms) \o LogSuffix

\* fs.appendFileSync(file, line) by logger l of a project: the file is created
\* if need be, and its modification time is the time of the call.
appendFile(dir, file, l, projectName, time) ==
    [n \in DOMAIN dir \cup {file} |->
        IF n = file
        THEN [mtime |-> time,
              writers |-> (IF file \in DOMAIN dir THEN dir[file].writers ELSE {}) \cup {l},
              projects |-> (IF file \in DOMAIN dir THEN dir[file].projects ELSE {})
                               \cup {projectName}]
        ELSE dir[n]]

\* getLatestLogFile: the files the filter keeps.
latestCandidates(dir, projectPath) ==
    {file \in DOMAIN dir :
        /\ startsWith(file, IndexPrefix \o basename(projectPath) \o <<"-">>)
        /\ endsWith(file, LogSuffix)}

\* getLatestLogFile: the files that can come first after the sort by mtime,
\* newest first; none when the filter keeps no file (the call returns null).
getLatestLogFile(dir, projectPath) ==
    LET files == latestCandidates(dir, projectPath)
    IN {file \in files : \A other \in files : dir[other].mtime <= dir[file].mtime}

LoggerInit ==
    /\ CoreIdle /\ NameIdle /\ PromptIdle /\ OneShotIdle /\ ConfirmIdle /\ ManagerIdle /\ SnapshotIdle /\ StopIdle
    /\ logDir = EmptyDir
    /\ dateNow = StartTime
    /\ dirBefore = <<>>
    /\ loggers = [l \in LoggerIds |-> <<>>]
    /\ lookup = <<>>

\* Half a second passes.
HalfSecond ==
    /\ dateNow < StartTime + MaxHalfSeconds * HalfSecondMs
    /\ dateNow' = dateNow + HalfSecondMs
    /\ UNCHANGED <<logDir, dirBefore, loggers, lookup>>
    /\ UNCHANGED outsideLog

\* new IndexLogger(projectPath): the file name is fixed and the first entry
\* ("Starting project indexing") is appended.
NewLogger(l, projectPath) ==
    /\ loggers[l] = <<>>
    /\ LET projectName == basename(projectPath)
           logFile == logFileName(projectName, dateNow)
       IN /\ loggers' = [loggers EXCEPT ![l] =
                            <<[projectName |-> projectName, logFile |-> logFile]>>]
          /\ logDir' = appendFile(logDir, logFile, l, projectName, dateNow)
    /\ UNCHANGED <<dateNow, dirBefore, lookup>>
    /\ UNCHANGED outsideLog

\* logger.log(level, message): one more line in the logger's file.
LogLine(l) ==
    /\ loggers[l] # <<>>
    /\ logDir' = appendFile(logDir, loggers[l][1].logFile, l,
                            loggers[l][1].projectName, dateNow)
    /\ UNCHANGED <<dateNow, dirBefore, loggers, lookup>>
    /\ UNCHANGED outsideLog

\* IndexLogger.getLatestLogFile(projectPath): the path returned, <<>> for null.
GetLatestLogFile(projectPath) ==
    /\ lookup = <<>>
    /\ \/ /\ getLatestLogFile(logDir, projectPath) = {}
          /\ lookup' = <<[projectPath |-> projectPath, result |-> <<>>]>>
       \/ \E file \in getLatestLogFile(logDir, projectPath) :
              lookup' = <<[projectPath |-> projectPath, result |-> <<file>>]>>
    /\ UNCHANGED <<logDir, dateNow, dirBefore, loggers>>
    /\ UNCHANGED outsideLog

LoggerNext ==
    \/ HalfSecond
    \/ \E l \in LoggerIds, p \in LoggerProjects : NewLogger(l, p)
    \/ \E l \in LoggerIds : LogLine(l)
    \/ \E p \in LoggerProjects : GetLatestLogFile(p)

LoggerSpec == LoggerInit /\ [][LoggerNext]_<<vars, otherVars>>

(***************************************************************************)
(* Properties                                                              *)
(***************************************************************************)
Collection == store[collectionName]

\* The entry of f in a cache: <<entry>>, or <<>> when there is none.
Entry(c, f) == IF f \in DOMAIN c.files THEN <<c.files[f]>> ELSE <<>>

InRun == phase \in Running \cup {"Done"}

\* C1: a run that follows a completed run (cache written) with the same
\* configuration and no file change has an empty changed set and issues no
\* embedding call.
C1_ReindexUnchangedIsFree ==
    (InRun /\ repeatRun) => (changed = {} /\ embedCalls = 0)

C1_Witness ==
    /\ phase = "Done" /\ repeatRun
    /\ Cardinality(CurrentFiles) = 2
    /\ CurrentFiles \subseteq DOMAIN cache.files

\* C2: within a run the cache entry of a file changes only after the insert of
\* that file succeeded; a file whose processing failed was not inserted, and
\* the cache the next run loads reports it as changed.
C2_CacheUpdateAfterInsert ==
    /\ [][(phase \in Running /\ phase' \in Running \cup {"Done"})
            => \A f \in Files : Entry(cache', f) # Entry(cache, f) => f \in inserted]_vars
    /\ [](InRun => \A f \in failures : f \notin inserted)
    /\ [](phase = "Done" =>
            \A f \in failures :
                hasFileChanged(loadCache(diskCache, ProjectPath, collectionName),
                               f, calculateHash(tree[f])))

C2_Witness ==
    /\ phase = "Done" /\ cacheSaved
    /\ failures # {} /\ inserted # {}
    /\ \E f \in failures : f \in DOMAIN cache.files

\* C3: the insert of a changed file's new chunks happens only after the filtered
\* delete of its previous chunks in the same run, so that after the insert the
\* collection holds none but the new chunks of the file.
C3_DeleteBeforeInsert ==
    /\ [][\A f \in Files : (f \in inserted' /\ f \notin inserted) => f \in deletedOld]_vars
    /\ [](InRun => \A f \in inserted : Collection.chunks[f] <= Chunker(tree[f]))

C3_Witness ==
    /\ phase = "Indexing" /\ step = "update"
    /\ cur \in inserted /\ cur \in deletedOld
    /\ cur \in DOMAIN cache.files
    /\ cache.files[cur].chunkCount > Chunker(tree[cur])
    /\ Collection.chunks[cur] = Chunker(tree[cur])

\* C4: ProjectMetadata is written only after the cache document of the run was
\* persisted, and a run whose cache write failed does not end as done.
C4_MetadataOnlyAfterCache ==
    /\ [][(diskMeta' # diskMeta /\ diskMeta'.state = "complete") => cacheSaved]_vars
    /\ [](phase = "Done" => cacheSaved)

\* C5: at every point file-hashes.json is a complete document (or was never
\* written): never a truncated one.
C5_SaveIsAtomic == diskCache.state \in {"absent", "complete"}

\* C6: at the end of a run, every file the run found deleted has no chunk in the
\* collection and no entry in the cache.
C6_DeletedFileGone ==
    phase = "Done" =>
        \A f \in deleted : Collection.chunks[f] = 0 /\ f \notin DOMAIN cache.files

\* C7: a persisted cache of another collection is treated as empty: every path
\* is reported as changed and no file as deleted.
C7_StaleCacheIsEmpty ==
    /\ \A n \in {generateCollectionName(ProjectPath, h, NoIdentifier) : h \in BOOLEAN} :
          IsStale(diskCache, n) =>
              LET c == loadCache(diskCache, ProjectPath, n)
              IN /\ \A f \in Files, k \in Contents :
                        hasFileChanged(c, f, calculateHash(k))
                 /\ \A S \in SUBSET Files : getDeletedFiles(c, S) = {}
    /\ (InRun /\ fullIndex /\ ~clean) => (changed = CurrentFiles /\ deleted = {})

C7_Witness ==
    /\ phase \in Running /\ fullIndex /\ ~clean
    /\ Cardinality(changed) = 2

C9_ChunkCountIsStored ==
    (phase = "Done" /\ status = "completed") =>
        \A f \in DOMAIN cache.files : cache.files[f].chunkCount = Collection.chunks[f]

\* C9 amended: every cache entry's chunkCount is the number of chunks generated
\* from the content whose hash the entry records, in the manager and on disk.
C9_ChunkCountIsGenerated ==
    /\ \A f \in DOMAIN cache.files :
          cache.files[f].chunkCount = Chunker(ContentOfHash(cache.files[f].hash))
    /\ diskCache.state = "complete" =>
          \A f \in DOMAIN diskCache.content[1].files :
              diskCache.content[1].files[f].chunkCount
                  = Chunker(ContentOfHash(diskCache.content[1].files[f].hash))

C9_Witness ==
    /\ phase = "Done" /\ status = "completed" /\ cacheSaved
    /\ \E f \in DOMAIN cache.files :
          /\ Collection.chunks[f] < cache.files[f].chunkCount
          /\ verifyInsertedData(cache.files[f].chunkCount, Collection.chunks[f]).warning
          /\ f \in inserted

CallSizes == [i \in 1..Len(calls) |-> Len(calls[i].input)]

\* ceil(n / 10) requests of 10 texts, the last of what remains.
ExpectedSizes(n) ==
    [i \in 1..((n + AlibabaBatchLimit - 1) \div AlibabaBatchLimit) |->
        IF i * AlibabaBatchLimit <= n THEN AlibabaBatchLimit
        ELSE n - (i - 1) * AlibabaBatchLimit]

EmbedBatchEnded == op = "embedBatch" /\ epc \in {"done", "failed"}

\* C12: whenever the provider answered every request of an embedBatch, the
\* operation returns a list as long as its input whose i-th element is the
\* embedding of the i-th text.
C12_EmbedBatchKeepsOrder ==
    (EmbedBatchEnded /\ ~fault) =>
        /\ epc = "done"
        /\ Len(results) = Len(texts)
        /\ \A i \in 1..Len(texts) : results[i].vector.of = texts[i]

\* C13: an embedBatch on n texts through the DashScope endpoint that returned
\* has issued exactly ceil(n/10) provider requests, of sizes 10, ..., 10 and the
\* remainder, in input order.
C13_RequestsOfTen ==
    (op = "embedBatch" /\ epc = "done" /\ isAlibaba(ecfg)) =>
        /\ CallSizes = ExpectedSizes(Len(texts))
        /\ \A i \in 1..Len(calls) :
              calls[i].input = SubSeq(texts, (i - 1) * AlibabaBatchLimit + 1,
                                      (i - 1) * AlibabaBatchLimit + Len(calls[i].input))

\* C14: with a custom dimension configured, detectDimension() and getDimension()
\* both return it.
C14_CustomDimensionIsAuthoritative ==
    ecfg.dimensions # 0 =>
        /\ detectDimensionAtOnce(ecfg) = <<ecfg.dimensions>>
        /\ getDimension(ecfg, dimension) = ecfg.dimensions

\* C15: in one process at most one provider call of detectDimension is answered:
\* every later detection uses the value of the first.
C15_DetectionIsCached == okProbes <= 1

\* C16: with a custom dimension d configured and a provider that returns vectors
\* of the requested length, every result of embed and embedBatch has dimension d
\* and a vector of length d.
C16_ResultsHaveCustomDimension ==
    ecfg.dimensions # 0 =>
        \A i \in 1..Len(results) :
            /\ results[i].dimension = ecfg.dimensions
            /\ results[i].vector.length = ecfg.dimensions

C16_Witness ==
    /\ op = "embedBatch" /\ epc = "done"
    /\ ecfg = [model |-> "text-embedding-v4", baseURL |-> "dashscope.aliyuncs.com",
               dimensions |-> 2048]
    /\ Len(results) = MaxTexts
    /\ Len(calls) = 3
    /\ opsDone = 1

\* C17: the error of a failed embed or embedBatch carries a recoverable flag,
\* true for timeouts and rate limits, false for authentication failures and
\* malformed responses.
C17_FailureCarriesRecoverable ==
    (op \in {"embed", "embedBatch"} /\ epc = "failed" /\ fault) =>
        /\ "recoverable" \in DOMAIN failure[1]
        /\ failure[1].recoverable = (failure[1].message[2] \in {"timeout", "rateLimit"})

\* C18: a hybrid search of limit N returns at most N documents, each with its
\* reciprocal-rank-fusion score for k = 100, strictly decreasing under (score,
\* then ascending id), and no candidate left out ranks before one returned.
C18_HitsStrictlyOrdered ==
    searched =>
        /\ Len(hits) <= query.limit
        /\ \A i \in 1..Len(hits) :
              /\ hits[i].document \in Candidates(query)
              /\ hits[i].score
                 = (IF RankOf(query.dense, hits[i].document) = 0 THEN 0
                    ELSE RRFScale \div (100 + RankOf(query.dense, hits[i].document)))
                   + (IF RankOf(query.sparse, hits[i].document) = 0 THEN 0
                      ELSE RRFScale \div (100 + RankOf(query.sparse, hits[i].document)))
        /\ \A i, j \in 1..Len(hits) :
              i < j => \/ hits[i].score > hits[j].score
                       \/ /\ hits[i].score = hits[j].score
                          /\ hits[i].document < hits[j].document
        /\ \A d \in Candidates(query) :
              (\A i \in 1..Len(hits) : hits[i].document # d)
              => /\ Len(hits) = query.limit
                 /\ \/ hits[Len(hits)].score > FusedScore(query, d)
                    \/ /\ hits[Len(hits)].score = FusedScore(query, d)
                       /\ hits[Len(hits)].document < d

C18_Witness ==
    /\ searched
    /\ query.limit = 2 /\ Len(hits) = 2
    /\ Cardinality(Candidates(query)) = 3
    /\ hits[1].score = hits[2].score
    /\ query.passing = Docs

\* C19: a completed run on a project with no matching files, whose metadata
\* write returned normally, has inserted nothing (so it created no collection)
\* and has persisted ProjectMetadata with totalChunks = 0.
C19_EmptyProjectHasNoChunks ==
    (phase = "Done" /\ status = "completed" /\ CurrentFiles = {} /\ metaSaved) =>
        /\ inserted = {}
        /\ diskMeta.state = "complete"
        /\ diskMeta.content[1].totalChunks = 0

C21_NameFollowsFormat ==
    generated # <<>> =>
        LET n == generated[1]
            supplied == nameGit # <<>> /\ Len(nameGit[1]) > 0
            resolved == pathResolve(namePath)
        IN /\ n.prefix = IF nameHybrid THEN "hybrid_code_chunks" ELSE "code_chunks"
           /\ supplied =>
                 LET id == nameGit[1]
                 IN /\ n.git # <<>>
                    /\ Len(n.git[1]) = IF Len(id) < 32 THEN Len(id) ELSE 32
                    /\ \A i \in 1..Len(n.git[1]) :
                          n.git[1][i] = IF id[i] \in LowerCase \cup Digits THEN id[i]
                                        ELSE IF id[i] \in UpperCase THEN LowerOf[id[i]]
                                        ELSE "_"
                    /\ n.hash = [i \in 1..8 |-> md5Hex(id)[i]]
           /\ ~supplied =>
                 /\ n.git = <<>>
                 /\ \A i \in 1..Len(resolved) : resolved[i] \notin {"", ".", ".."}
                 /\ n.hash = [i \in 1..8 |-> md5Hex(resolved)[i]]

\* A hybrid-mode name was generated for an identifier of more than 32 characters
\* with an upper case letter and a separator among the first 32.
C21_Witness ==
    /\ generated # <<>>
    /\ nameHybrid
    /\ nameGit # <<>>
    /\ Len(nameGit[1]) > 32
    /\ \E i \in 1..32 : nameGit[1][i] \in UpperCase
    /\ \E i \in 1..32 : nameGit[1][i] \in Separators
    /\ Len(generated[1].git[1]) = 32

\* A string that denotes a number: an optional minus sign and decimal digits.
IsNumeral(s) ==
    LET digits == IF s # <<>> /\ Head(s) = "-" THEN Tail(s) ELSE s
    IN digits # <<>> /\ \A i \in 1..Len(digits) : digits[i] \in Digits

\* The number a numeral denotes.
NumeralValue(s) ==
    IF Head(s) = "-" THEN 0 - DecimalValue(Tail(s)) ELSE DecimalValue(s)

\* C22: in the interactive query tool the result limit is always an integer
\* between 1 and 100, and after a `limit <n>` command whose argument is not a
\* number, is not positive or exceeds 100 the limit is what it was before the
\* command.
C22_LimitCommandKeepsRange ==
    /\ settings.limit \in 1..100
    /\ limitArg # <<>> =>
          LET n == limitArg[1]
          IN (~IsNumeral(n) \/ NumeralValue(n) <= 0 \/ NumeralValue(n) > 100)
                 => settings.limit = limitBefore

\* C23: in the one-shot query tool the limit passed to the query and
\* hybrid_search operations is between 1 and 100, whatever follows --limit.
C23_PassedLimitInRange ==
    passedLimit # <<>> => passedLimit[1] \in 1..100

\* C24: every dropCollection, clearIndex and indexCodebase call of the
\* interactive query tool was made on a confirmation answered with "yes" in
\* some mix of upper and lower case; a command whose confirmation is pending
\* has made no call.
C24_CallsOnlyAfterYes ==
    /\ \A i \in 1..Len(apiLog) :
          LET a == apiLog[i].answer
          IN /\ Len(a) = 3
             /\ a[1] \in {"y", "Y"} /\ a[2] \in {"e", "E"} /\ a[3] \in {"s", "S"}
    /\ ~interactive => apiLog = <<>>

\* A reindex of an indexed project was confirmed with "YES" and made both of
\* its calls, in a session whose two other commands made none.
C24_Witness ==
    /\ commandsRun = 3
    /\ Len(apiLog) = 2
    /\ apiLog[1] = Call("clearIndex", <<"Y", "E", "S">>)
    /\ apiLog[2] = Call("indexCodebase", <<"Y", "E", "S">>)

\* A file name of the form index-*.log: "index-", anything, ".log".
IsIndexLogName(n) ==
    /\ Len(n) >= 10
    /\ [i \in 1..6 |-> n[i]] = <<"i", "n", "d", "e", "x", "-">>
    /\ [i \in 1..4 |-> n[Len(n) - 4 + i]] = <<".", "l", "o", "g">>

C26_ClearedManagerIsEmpty ==
    sinceClear # <<>> =>
        LET updated == sinceClear[1].updated
        IN /\ \A f \in Files \ updated, c \in Contents :
                  hasFileChanged(mgrCache, f, calculateHash(c))
           /\ getDeletedFiles(mgrCache, updated) = {}
           /\ (sinceClear[1].saved /\ mgrFile.state = "complete")
                  => DOMAIN mgrFile.content[1].files \subseteq updated

\* The statuses recorded for a project path in a snapshot document: of its
\* entry (v2, object) or of its items (v1, array).
RecordedStatuses(doc, p) ==
    IF doc.codebases = <<>> THEN {}
    ELSE LET v == doc.codebases[1]
         IN IF v.kind = "array"
            THEN {v.items[i].status : i \in {j \in 1..Len(v.items) : v.items[j].path = p}}
            ELSE {v.props[p][1].status : k \in {x \in {p} : v.props[x] # <<>>}}

\* C27: after a sync-index run in which indexing took place, the snapshot file
\* holds a document with an entry for the project path, of status indexed or
\* partial when indexing succeeded and failed when it threw, whether the file
\* held a v1 or a v2 document before.
C27_SnapshotRecordsOutcome ==
    (syncRun # <<>> /\ syncRun[1].ending # "skipped") =>
        /\ snapshotFile.state = "complete"
        /\ LET recorded == RecordedStatuses(snapshotFile.content[1], pathResolve(ProjectPath))
           IN /\ recorded # {}
              /\ syncRun[1].ending = "threw" => recorded = {"failed"}
              /\ syncRun[1].ending # "threw" => recorded \subseteq {"indexed", "partial"}

\* C28: stop-indexing <project-name> signals only indexing processes of the
\* named project (a name that differs only in the case of its letters is taken
\* as the named project): no indexing process of another project and no
\* process that indexes no project receives a signal.
C28_SignalsOnlyNamedProject ==
    stopped # <<>> =>
        \A sig \in signals :
            LET command == processes[sig.pid]
            IN /\ command.program = "index-project.js"
               /\ command.argument # <<>>
               /\ toLowerCase(command.argument[1][Len(command.argument[1])])
                     = toLowerCase(stopped[1])

\* C29: no log file is appended to by two IndexLogger instances.
C29_OneLoggerPerFile ==
    \A file \in DOMAIN logDir : Cardinality(logDir[file].writers) <= 1

\* C30: the file getLatestLogFile(projectPath) returns was written for a
\* project whose basename is basename(projectPath), and no file written for
\* such a project was modified later.
C30_LatestLogIsOfProject ==
    (lookup # <<>> /\ lookup[1].result # <<>>) =>
        LET name == lookup[1].projectPath[Len(lookup[1].projectPath)]
            file == lookup[1].result[1]
        IN /\ logDir[file].projects = {name}
           /\ \A other \in DOMAIN logDir :
                 name \in logDir[other].projects
                     => logDir[other].mtime <= logDir[file].mtime

=============================================================================
